---------------------------- MODULE Spec2Model ----------------------------
(***************************************************************************)
(* A state-machine model of src/app.py (Sully AI web app): the quote       *)
(* fetcher, the process-wide quote cache, the Conversation Engine          *)
(* (SullyAI), and the /chat, /api/briefing, /api/insights and /api/stocks  *)
(* request handlers.                                                       *)
(*                                                                         *)
(* Conventions.  Money is an integer: upstream values are in mills         *)
(* (1/1000 dollar), stored values (after round(x, 2)) are in cents;        *)
(* percentages are stored in hundredths of a percent.  A Python dict is a  *)
(* record [keys, map] that keeps the insertion order of its keys.  None is *)
(* modelled per variable (see NoData, NoTime, NoEngine).  Text that the    *)
(* code builds with f-strings is a sequence of segments, one per           *)
(* interpolated part.  Each handler is one atomic action; the outcomes of  *)
(* the upstream calls it makes are inputs of the action.                   *)
(***************************************************************************)
EXTENDS Integers, Sequences, FiniteSets, TLC

VARIABLES
  env,           \* GROQ_API_KEY / NEWS_API_KEY as read at import time
  now,           \* the wall clock, whole seconds (datetime.now())
  aggregator,    \* global aggregator: FALSE = None, TRUE = NewsAggregator()
  sully,         \* global sully: NoEngine or [conversation_history]
  current_data,  \* global current_data: NoData or [stocks, timestamp]
  last_update,   \* global last_update: NoTime or a clock value
  conversations, \* rows inserted into the conversations table by /chat
  last,          \* what the most recent request did (see NoRequest)
  requests,      \* number of requests handled so far
  ticks,         \* number of clock advances so far
  args,          \* arguments of the function applied in a function-level run
  ret            \* its return value

vars == <<env, now, aggregator, sully, current_data, last_update,
          conversations, last, requests, ticks, args, ret>>

-----------------------------------------------------------------------------
(* Bounds of the model *)

MaxSymbols == 2

RouterRequests == 1

CacheRequests == 3

MaxTicks == 2

MaxCalls == 5

\* SpecInsights: symbols of a snapshot whose moves range over every threshold
MaxMovers == 2

\* SpecInsights: symbols of a wide snapshot (gain, flat or failed lookup)
MaxWide == 5

\* SpecInsights: calls of the extractor on one snapshot
ExtractorCalls == 2

\* SpecOverlap: worker threads serving requests at the same time
MaxWorkers == 2

\* symbols in a snapshot handed to the portfolio analysis
MaxHeld == 4

-----------------------------------------------------------------------------
(* Python values *)

NoData == [none |-> TRUE]

NoTime == -1

NoEngine == [none |-> TRUE]

EmptyDict == [keys |-> <<>>, map |-> <<>>]

\* d[k] = v on a dict: a new key goes last, an old key keeps its place.
DictSet(d, k, v) ==
  IF k \in DOMAIN d.map
    THEN [d EXCEPT !.map = [x \in DOMAIN d.map |-> IF x = k THEN v ELSE d.map[x]]]
    ELSE [keys |-> Append(d.keys, k), map |-> (d.map @@ (k :> v))]

\* d.get(k, default)
Get(d, k, default) == IF k \in DOMAIN d THEN d[k] ELSE default

KeySet(d) == {d.keys[i] : i \in 1..Len(d.keys)}

\* round(n / d) for integers n and d > 0, ties to even, as Python's round().
RoundHalfEven(n, d) ==
  LET q == n \div d
      r == n % d
  IN  IF 2 * r < d THEN q
      ELSE IF 2 * r > d THEN q + 1
      ELSE IF q % 2 = 0 THEN q ELSE q + 1

\* round(x, 2) of an amount in mills, giving cents.
Round2(mills) == RoundHalfEven(mills, 10)

Abs(x) == IF x < 0 THEN -x ELSE x

Max(a, b) == IF a >= b THEN a ELSE b

Min(a, b) == IF a <= b THEN a ELSE b

-----------------------------------------------------------------------------
(* Strings: the characters of every string literal the model searches in,  *)
(* str.lower() and the substring test  `kw in text`.                       *)

Chars(s) ==
  CASE s = "stock" -> <<"s", "t", "o", "c", "k">>
    [] s = "brady" -> <<"b", "r", "a", "d", "y">>
    [] s = "tb12" -> <<"t", "b", "1", "2">>
    [] s = "elon" -> <<"e", "l", "o", "n">>
    [] s = "musk" -> <<"m", "u", "s", "k">>
    [] s = "tesla" -> <<"t", "e", "s", "l", "a">>
    [] s = "trump" -> <<"t", "r", "u", "m", "p">>
    [] s = "djt" -> <<"d", "j", "t">>
    [] s = "patriots" -> <<"p", "a", "t", "r", "i", "o", "t", "s">>
    [] s = "pats" -> <<"p", "a", "t", "s">>
    [] s = "celtics" -> <<"c", "e", "l", "t", "i", "c", "s">>
    [] s = "news" -> <<"n", "e", "w", "s">>
    [] s = "latest" -> <<"l", "a", "t", "e", "s", "t">>
    [] s = "New England Patriots" -> <<"N", "e", "w", " ", "E", "n", "g", "l", "a", "n", "d", " ", "P", "a", "t", "r", "i", "o", "t", "s">>
    [] s = "Boston Celtics" -> <<"B", "o", "s", "t", "o", "n", " ", "C", "e", "l", "t", "i", "c", "s">>
    [] s = "How are my stocks looking?" -> <<"H", "o", "w", " ", "a", "r", "e", " ", "m", "y", " ", "s", "t", "o", "c", "k", "s", " ", "l", "o", "o", "k", "i", "n", "g", "?">>
    [] s = "Any Patriots news?" -> <<"A", "n", "y", " ", "P", "a", "t", "r", "i", "o", "t", "s", " ", "n", "e", "w", "s", "?">>
    [] s = "What's up with Elon?" -> <<"W", "h", "a", "t", "'", "s", " ", "u", "p", " ", "w", "i", "t", "h", " ", "E", "l", "o", "n", "?">>
    [] s = "Tesla stock news" -> <<"T", "e", "s", "l", "a", " ", "s", "t", "o", "c", "k", " ", "n", "e", "w", "s">>
    [] s = "Latest on Brady, Elon and Trump" -> <<"L", "a", "t", "e", "s", "t", " ", "o", "n", " ", "B", "r", "a", "d", "y", ",", " ", "E", "l", "o", "n", " ", "a", "n", "d", " ", "T", "r", "u", "m", "p">>
    [] s = "Musk and DJT" -> <<"M", "u", "s", "k", " ", "a", "n", "d", " ", "D", "J", "T">>
    [] s = "DJT today" -> <<"D", "J", "T", " ", "t", "o", "d", "a", "y">>
    [] s = "Celtics score" -> <<"C", "e", "l", "t", "i", "c", "s", " ", "s", "c", "o", "r", "e">>
    [] s = "Go Pats" -> <<"G", "o", " ", "P", "a", "t", "s">>
    [] s = "latest headlines" -> <<"l", "a", "t", "e", "s", "t", " ", "h", "e", "a", "d", "l", "i", "n", "e", "s">>
    [] s = "Good morning" -> <<"G", "o", "o", "d", " ", "m", "o", "r", "n", "i", "n", "g">>
    [] s = "" -> <<>>

UpperCase == <<"A", "B", "C", "D", "E", "F", "G", "H", "I", "J", "K", "L", "M",
               "N", "O", "P", "Q", "R", "S", "T", "U", "V", "W", "X", "Y", "Z">>

LowerCase == <<"a", "b", "c", "d", "e", "f", "g", "h", "i", "j", "k", "l", "m",
               "n", "o", "p", "q", "r", "s", "t", "u", "v", "w", "x", "y", "z">>

LowerChar(c) ==
  IF \E i \in 1..26 : UpperCase[i] = c
    THEN LowerCase[CHOOSE i \in 1..26 : UpperCase[i] = c]
    ELSE c

\* s.lower(), as a character sequence
Lower(s) == [i \in 1..Len(Chars(s)) |-> LowerChar(Chars(s)[i])]

\* needle in hay, on character sequences
SubstringOf(needle, hay) ==
  \E i \in 0..(Len(hay) - Len(needle)) :
     \A j \in 1..Len(needle) : hay[i + j] = needle[j]

\* the keywords the code searches for and the texts it searches in
Keywords ==
  {"stock", "brady", "tb12", "elon", "musk", "tesla", "trump", "djt",
   "patriots", "pats", "celtics", "news", "latest"}

Texts ==
  {"How are my stocks looking?", "Any Patriots news?", "What's up with Elon?",
   "Tesla stock news", "Latest on Brady, Elon and Trump", "Musk and DJT",
   "DJT today", "Celtics score", "latest headlines", "Good morning", "",
   "New England Patriots", "Boston Celtics", "patriots", "celtics", "Go Pats"}

\* kw in text.lower(), tabulated once for every keyword and text
InLowerTable ==
  [kw \in Keywords |-> [text \in Texts |-> SubstringOf(Chars(kw), Lower(text))]]

InLower(kw, text) == InLowerTable[kw][text]

\* any(keyword in text.lower() for keyword in kws)
AnyInLower(kws, text) == \E i \in 1..Len(kws) : InLower(kws[i], text)

-----------------------------------------------------------------------------
(* The market-data provider's answers and the per-symbol quote lookup      *)

\* session.get() raised (timeout, connection error)
RespException ==
  [raised |-> TRUE, status_code |-> 0, valid |-> FALSE, meta |-> <<>>, closes |-> <<>>]

\* a non-200 answer
RespStatus(code) ==
  [raised |-> FALSE, status_code |-> code, valid |-> FALSE, meta |-> <<>>, closes |-> <<>>]

\* 200 with a body that is not JSON or lacks chart.result[0].meta
RespMalformed ==
  [raised |-> FALSE, status_code |-> 200, valid |-> FALSE, meta |-> <<>>, closes |-> <<>>]

\* 200 with a well-formed chart body
RespQuote(meta, closes) ==
  [raised |-> FALSE, status_code |-> 200, valid |-> TRUE, meta |-> meta, closes |-> closes]

Meta(price, prev) ==
  [regularMarketPrice |-> price, previousClose |-> prev, regularMarketVolume |-> 1000]

\* [price for price in closes if price is not None]: a close is <<v>> or <<>> (None)
NotNone(closes) ==
  LET F[i \in 0..Len(closes)] ==
        IF i = 0 THEN <<>>
        ELSE IF closes[i] = <<>> THEN F[i - 1] ELSE Append(F[i - 1], closes[i][1])
  IN  F[Len(closes)]

\* history[-30:]
LastThirty(history) == SubSeq(history, Max(1, Len(history) - 29), Len(history))

\* QuoteEntry with the percentage taken of the current price
QuoteEntryOverPrice(symbol, resp) ==
  LET quote          == resp.meta
      current_price  == Get(quote, "regularMarketPrice", 0)
      previous_close == Get(quote, "previousClose", 0)
      change         == current_price - previous_close
      change_percent == IF current_price # 0
                          THEN RoundHalfEven(change * 10000, current_price)
                          ELSE 0
      history        == NotNone(resp.closes)
  IN  [symbol         |-> symbol,
       price          |-> Round2(current_price),
       change         |-> Round2(change),
       change_percent |-> change_percent,
       previous_close |-> Round2(previous_close),
       volume         |-> Get(quote, "regularMarketVolume", 0),
       history        |-> LastThirty(history)]

\* the entry built from a 200 answer with a valid body
QuoteEntry(symbol, resp) ==
  LET quote          == resp.meta
      current_price  == Get(quote, "regularMarketPrice", 0)
      previous_close == Get(quote, "previousClose", 0)
      change         == current_price - previous_close
      change_percent == IF previous_close # 0
                          THEN RoundHalfEven(change * 10000, previous_close)
                          ELSE 0
      history        == NotNone(resp.closes)
  IN  [symbol         |-> symbol,
       price          |-> Round2(current_price),
       change         |-> Round2(change),
       change_percent |-> change_percent,
       previous_close |-> Round2(previous_close),
       volume         |-> Get(quote, "regularMarketVolume", 0),
       history        |-> LastThirty(history)]

\* the entry stored by the except branch
ErrorEntry(symbol, resp) ==
  [error |-> IF resp.raised THEN "timeout" ELSE "parse error", symbol |-> symbol]

\* one turn of the for loop: try / if status_code == 200 / except
\* Lookup with a failure that discards what the loop has collected so far
LookupClearing(stock_data, symbol, resp) ==
  IF resp.raised
    THEN DictSet(EmptyDict, symbol, ErrorEntry(symbol, resp))
  ELSE IF resp.status_code = 200
    THEN IF resp.valid
           THEN DictSet(stock_data, symbol, QuoteEntry(symbol, resp))
           ELSE DictSet(EmptyDict, symbol, ErrorEntry(symbol, resp))
  ELSE stock_data

\* one turn of the loop of get_stock_data: the try body and its except clause
Lookup(stock_data, symbol, resp) ==
  IF resp.raised
    THEN DictSet(stock_data, symbol, ErrorEntry(symbol, resp))
  ELSE IF resp.status_code = 200
    THEN IF resp.valid
           THEN DictSet(stock_data, symbol, QuoteEntry(symbol, resp))
           ELSE DictSet(stock_data, symbol, ErrorEntry(symbol, resp))
  ELSE stock_data

\* NewsAggregator.get_stock_data: responses[i] answers the lookup of symbols[i]
get_stock_data(symbols, responses) ==
  LET F[i \in 0..Len(symbols)] ==
        IF i = 0 THEN EmptyDict ELSE Lookup(F[i - 1], symbols[i], responses[i])
  IN  F[Len(symbols)]

\* fetch_stock_data_from_yahoo: the same loop on a session of its own
fetch_stock_data_from_yahoo(symbols, responses) ==
  LET F[i \in 0..Len(symbols)] ==
        IF i = 0 THEN EmptyDict ELSE Lookup(F[i - 1], symbols[i], responses[i])
  IN  F[Len(symbols)]

-----------------------------------------------------------------------------
(* Configuration and reference data *)

\* STOCK_SYMBOLS, here configured (environment variable) to three symbols
STOCK_SYMBOLS == <<"TSLA", "AAPL", "DJT">>

VIP_TRACKING ==
  [tom_brady |-> [name |-> "Tom Brady",
                  keywords |-> <<"Tom Brady", "TB12", "Brady">>,
                  businesses |-> <<"TB12 Sports", "Brady Brand", "NFL Fox Sports">>],
   elon_musk |-> [name |-> "Elon Musk",
                  keywords |-> <<"Elon Musk", "Tesla", "SpaceX", "X Twitter">>,
                  stocks |-> <<"TSLA">>,
                  businesses |-> <<"Tesla", "SpaceX", "X (Twitter)", "Neuralink",
                                   "Boring Company">>],
   trump     |-> [name |-> "Donald Trump",
                  keywords |-> <<"Donald Trump", "Trump", "Truth Social">>,
                  stocks |-> <<"DJT">>,
                  businesses |-> <<"Trump Media", "Truth Social",
                                   "Trump Organization">>]]

-----------------------------------------------------------------------------
(* NewsAggregator: news and entity lookups.  A provider answer is          *)
(* [raised, status_code, valid, ...]; each function returns its text and   *)
(* the list of upstream calls it made.                                     *)

NewsAnswer(articles) ==
  [raised |-> FALSE, status_code |-> 200, valid |-> TRUE, articles |-> articles]

NewsStatus(code) ==
  [raised |-> FALSE, status_code |-> code, valid |-> FALSE, articles |-> <<>>]

NewsException ==
  [raised |-> TRUE, status_code |-> 0, valid |-> FALSE, articles |-> <<>>]

SportsAnswer(summary) ==
  [raised |-> FALSE, status_code |-> 200, valid |-> TRUE, record |-> summary]

SportsStatus(code) ==
  [raised |-> FALSE, status_code |-> code, valid |-> FALSE, record |-> "N/A"]

SportsException ==
  [raised |-> TRUE, status_code |-> 0, valid |-> FALSE, record |-> "N/A"]

\* a 200 answer whose body response.json() cannot parse
NewsMalformed ==
  [raised |-> FALSE, status_code |-> 200, valid |-> FALSE, articles |-> <<>>]

\* a 200 answer whose body cannot be parsed or has an empty record list
SportsMalformed ==
  [raised |-> FALSE, status_code |-> 200, valid |-> FALSE, record |-> "N/A"]

\* the News API block of both search functions: the articles it yields, or <<>>
\* when the request raised, was not 200, had no parsable body or no articles
Articles(newsResp) ==
  IF newsResp.raised THEN <<>>
  ELSE IF newsResp.status_code # 200 THEN <<>>
  ELSE IF ~newsResp.valid THEN <<>>
  ELSE SubSeq(newsResp.articles, 1, Min(5, Len(newsResp.articles)))

\* the ESPN fallback for one team: its text, or <<>> when it yields nothing
TeamRecord(team, sportsResp) ==
  IF sportsResp.raised THEN <<>>
  ELSE IF sportsResp.status_code # 200 THEN <<>>
  ELSE IF ~sportsResp.valid THEN <<>>
  ELSE <<[kind |-> "team_record", team |-> team, record |-> sportsResp.record]>>

\* search_live_news without its last return: nothing after the two providers
search_live_newsNoPointer(query, newsResp, sportsResp) ==
  LET articles == IF env.NEWS_API_KEY THEN Articles(newsResp) ELSE <<>>
      newsCall == IF env.NEWS_API_KEY THEN <<"newsapi">> ELSE <<>>
      isPats   == InLower("patriots", query) \/ InLower("pats", query)
      isCelts  == InLower("celtics", query)
      team     == IF isPats THEN "NEW ENGLAND PATRIOTS" ELSE "BOSTON CELTICS"
      fallback == IF isPats \/ isCelts THEN TeamRecord(team, sportsResp) ELSE <<>>
      espnCall == IF isPats \/ isCelts THEN <<"espn">> ELSE <<>>
  IN  IF articles # <<>>
        THEN [text  |-> <<[kind |-> "latest_news", query |-> query,
                           articles |-> articles]>>,
              calls |-> newsCall, raised |-> FALSE]
      ELSE [text |-> fallback, calls |-> newsCall \o espnCall, raised |-> FALSE]

\* every request and every parse sits inside `try: ... except Exception: pass`,
\* so a failing provider yields nothing and `raised` is never set
search_live_news(query, newsResp, sportsResp) ==
  LET articles == IF env.NEWS_API_KEY THEN Articles(newsResp) ELSE <<>>
      newsCall == IF env.NEWS_API_KEY THEN <<"newsapi">> ELSE <<>>
      isPats   == InLower("patriots", query) \/ InLower("pats", query)
      isCelts  == InLower("celtics", query)
      team     == IF isPats THEN "NEW ENGLAND PATRIOTS" ELSE "BOSTON CELTICS"
      fallback == IF isPats \/ isCelts THEN TeamRecord(team, sportsResp) ELSE <<>>
      espnCall == IF isPats \/ isCelts THEN <<"espn">> ELSE <<>>
  IN  IF articles # <<>>
        THEN [text  |-> <<[kind |-> "latest_news", query |-> query,
                           articles |-> articles]>>,
              calls |-> newsCall, raised |-> FALSE]
      ELSE IF fallback # <<>>
        THEN [text |-> fallback, calls |-> newsCall \o espnCall,
              raised |-> FALSE]
      ELSE [text  |-> <<[kind |-> "pointer", query |-> query]>>,
            calls |-> newsCall \o espnCall, raised |-> FALSE]

\* the STOCKS lines of the entity block: one per non-errored entry
VipStockLines(stock_data) ==
  LET F[i \in 0..Len(stock_data.keys)] ==
        IF i = 0 THEN <<>>
        ELSE LET symbol == stock_data.keys[i]
                 data   == stock_data.map[symbol]
             IN  IF "error" \in DOMAIN data THEN F[i - 1]
                 ELSE Append(F[i - 1],
                        [symbol     |-> symbol,
                         price      |-> data.price,
                         indicator  |-> IF data.change_percent > 0
                                          THEN "chart_up" ELSE "chart_down",
                         change_pct |-> data.change_percent])
  IN  F[Len(stock_data.keys)]

\* quoteResps[i] answers the lookup of the entity's i-th ticker
search_vip_news(vip_key, newsResp, quoteResps) ==
  IF vip_key \notin DOMAIN VIP_TRACKING
    THEN [text |-> <<>>, calls |-> <<>>, raised |-> FALSE]
  ELSE
    LET vip      == VIP_TRACKING[vip_key]
        articles == IF env.NEWS_API_KEY THEN Articles(newsResp) ELSE <<>>
        newsCall == IF env.NEWS_API_KEY THEN <<"newsapi">> ELSE <<>>
        hasStocks == "stocks" \in DOMAIN vip
        stock_data == IF hasStocks
                        THEN get_stock_data(vip.stocks,
                                            SubSeq(quoteResps, 1, Len(vip.stocks)))
                        ELSE EmptyDict
    IN  IF articles # <<>>
          THEN [text |->
                  <<[kind |-> "vip_news", name |-> vip.name, articles |-> articles]>>
                  \o (IF hasStocks
                        THEN <<[kind |-> "vip_stocks",
                                lines |-> VipStockLines(stock_data)]>>
                        ELSE <<>>)
                  \o (IF "businesses" \in DOMAIN vip
                        THEN <<[kind |-> "vip_businesses",
                                businesses |-> vip.businesses]>>
                        ELSE <<>>),
                calls |-> newsCall \o (IF hasStocks THEN <<"yahoo">> ELSE <<>>),
                raised |-> FALSE]
          ELSE [text  |-> <<[kind |-> "vip_pointer", name |-> vip.name]>>,
                calls |-> newsCall, raised |-> FALSE]

\* NewsAggregator.get_full_briefing, called at clock value t
get_full_briefing(stock_symbols, responses, t) ==
  [stocks |-> get_stock_data(stock_symbols, responses), timestamp |-> t]

-----------------------------------------------------------------------------
(* SullyAI: the Conversation Engine *)

\* SullyAI.__init__
NewEngine == [conversation_history |-> <<>>]

\* `if current_data:` -- None and the empty dict are falsy
Truthy(data) == data # NoData /\ DOMAIN data # {}

\* LastSix without the window: the whole history
LastSixAll(history) == history

\* self.conversation_history[-6:]
LastSix(history) == SubSeq(history, Max(1, Len(history) - 5), Len(history))

\* BuildMessages without the market-data block
BuildMessagesNoData(engine, user_message, data) ==
  <<[role |-> "system", content |-> <<[kind |-> "system_prompt"]>>]>>
  \o LastSix(engine.conversation_history)
  \o <<[role |-> "user", content |-> user_message]>>

\* the messages list SullyAI.chat sends to the completion provider
BuildMessages(engine, user_message, data) ==
  <<[role |-> "system", content |-> <<[kind |-> "system_prompt"]>>]>>
  \o (IF Truthy(data)
        THEN <<[role |-> "system",
                content |-> <<[kind |-> "current_data",
                               stocks |-> Get(data, "stocks", EmptyDict)]>>]>>
        ELSE <<>>)
  \o LastSix(engine.conversation_history)
  \o <<[role |-> "user", content |-> user_message]>>

\* SullyAI_chat with the user turn appended before the provider is called
SullyAI_chatEager(engine, user_message, data, completion) ==
  LET messages == BuildMessages(engine, user_message, data)
      turned   == [engine EXCEPT !.conversation_history =
                     Append(@, [role |-> "user", content |-> user_message])]
  IN  IF completion.raised
        THEN [messages |-> messages, raised |-> TRUE, reply |-> <<>>,
              provider_calls |-> 1, engine |-> turned]
        ELSE [messages |-> messages, raised |-> FALSE,
              reply |-> completion.content, provider_calls |-> 1,
              engine |-> [turned EXCEPT !.conversation_history =
                            Append(@, [role |-> "assistant",
                                       content |-> completion.content])]]

\* SullyAI.chat that keeps the reply in the history and not the user turn
SullyAI_chatReplyOnly(engine, user_message, data, completion) ==
  LET messages == BuildMessages(engine, user_message, data)
  IN  IF completion.raised
        THEN [messages |-> messages, raised |-> TRUE, reply |-> <<>>,
              provider_calls |-> 1, engine |-> engine]
        ELSE [messages |-> messages, raised |-> FALSE,
              reply |-> completion.content, provider_calls |-> 1,
              engine |-> [engine EXCEPT !.conversation_history =
                            Append(@, [role |-> "assistant",
                                       content |-> completion.content])]]

\* SullyAI.chat: completion is the provider's outcome [raised, content];
\* provider_calls counts the calls of client.chat.completions.create
SullyAI_chat(engine, user_message, data, completion) ==
  LET messages == BuildMessages(engine, user_message, data)
  IN  IF completion.raised
        THEN [messages |-> messages, raised |-> TRUE, reply |-> <<>>,
              provider_calls |-> 1, engine |-> engine]
        ELSE [messages |-> messages, raised |-> FALSE,
              reply |-> completion.content, provider_calls |-> 1,
              engine |-> [engine EXCEPT !.conversation_history =
                            Append(Append(@, [role |-> "user",
                                              content |-> user_message]),
                                   [role |-> "assistant",
                                    content |-> completion.content])]]

-----------------------------------------------------------------------------
(* The quote cache test shared by /chat, /api/briefing and /api/insights   *)

\* timedelta.seconds: the seconds field of a non-negative timedelta, which
\* leaves out whole days
TimedeltaSeconds(delta) == delta % 86400

\* not current_data or not last_update
\*   or (datetime.now() - last_update).seconds > 1800
NeedsRefresh(data, updated, t) ==
  \/ ~Truthy(data)
  \/ updated = NoTime
  \/ TimedeltaSeconds(t - updated) > 1800

-----------------------------------------------------------------------------
(* The /chat router *)

\* StocksText with an unchanged price reported as UP
StocksTextNoFlat(stocks) ==
  LET F[i \in 0..Len(stocks.keys)] ==
        IF i = 0 THEN <<>>
        ELSE LET symbol     == stocks.keys[i]
                 stock_data == stocks.map[symbol]
             IN  IF "error" \in DOMAIN stock_data THEN F[i - 1]
                 ELSE LET change == stock_data.change
                      IN  Append(F[i - 1],
                            [symbol     |-> symbol,
                             price      |-> stock_data.price,
                             arrow      |-> IF change >= 0 THEN "up_arrow"
                                            ELSE "down_arrow",
                             abs_change |-> Abs(change),
                             change_pct |-> stock_data.change_percent,
                             trend      |-> IF change >= 0 THEN "UP" ELSE "DOWN"])
  IN  F[Len(stocks.keys)]

\* the "=== PORTFOLIO UPDATE ===" block: one record per non-errored entry, in
\* the dict's iteration order
StocksText(stocks) ==
  LET F[i \in 0..Len(stocks.keys)] ==
        IF i = 0 THEN <<>>
        ELSE LET symbol     == stocks.keys[i]
                 stock_data == stocks.map[symbol]
             IN  IF "error" \in DOMAIN stock_data THEN F[i - 1]
                 ELSE LET change == stock_data.change
                      IN  Append(F[i - 1],
                            [symbol     |-> symbol,
                             price      |-> stock_data.price,
                             arrow      |-> IF change > 0 THEN "up_arrow"
                                            ELSE IF change < 0 THEN "down_arrow"
                                            ELSE "right_arrow",
                             abs_change |-> Abs(change),
                             change_pct |-> stock_data.change_percent,
                             trend      |-> IF change > 0 THEN "UP"
                                            ELSE IF change < 0 THEN "DOWN"
                                            ELSE "FLAT"])
  IN  F[Len(stocks.keys)]

UserText(user_message) == <<[kind |-> "user_message", str |-> user_message]>>

\* Branch with the VIP test ahead of the stock test
BranchVipFirst(user_message) ==
  IF AnyInLower(<<"brady", "tb12", "elon", "musk", "tesla", "trump", "djt">>,
                user_message) THEN "vip"
  ELSE IF InLower("stock", user_message) THEN "stock"
  ELSE IF AnyInLower(<<"patriots", "pats", "celtics", "news", "latest">>,
                     user_message) THEN "news"
  ELSE "plain"

\* which arm of the if / elif chain of chat() a message takes
Branch(user_message) ==
  IF InLower("stock", user_message) THEN "stock"
  ELSE IF AnyInLower(<<"brady", "tb12", "elon", "musk", "tesla", "trump", "djt">>,
                     user_message) THEN "vip"
  ELSE IF AnyInLower(<<"patriots", "pats", "celtics", "news", "latest">>,
                     user_message) THEN "news"
  ELSE "plain"

\* the entity a VIP message resolves to ("" = vip_context stays empty)
VipKey(user_message) ==
  IF AnyInLower(<<"brady", "tb12">>, user_message) THEN "tom_brady"
  ELSE IF AnyInLower(<<"elon", "musk", "tesla">>, user_message) THEN "elon_musk"
  ELSE IF AnyInLower(<<"trump", "djt">>, user_message) THEN "trump"
  ELSE ""

\* SearchQuery without the canonical team names
SearchQueryRaw(user_message) == user_message

\* the search query of a news message
SearchQuery(user_message) ==
  IF InLower("patriots", user_message) \/ InLower("pats", user_message)
    THEN "New England Patriots"
  ELSE IF InLower("celtics", user_message)
    THEN "Boston Celtics"
  ELSE user_message

\* the body of the arm taken: the lookups it makes and the text it hands to
\* sully.chat
Route(user_message, data, newsResp, sportsResp, vipResps) ==
  LET branch == Branch(user_message)
  IN  IF branch = "stock"
        THEN [branch |-> branch, vip_key |-> "", search_query |-> "",
              calls  |-> <<>>, vip_resps |-> <<>>,
              prompt |-> <<[kind |-> "literal",
                            str  |-> "Give me your Boston take on these stocks:"],
                           [kind  |-> "portfolio_update",
                            lines |-> StocksText(data.stocks)]>>]
      ELSE IF branch = "vip"
        THEN LET vip_key == VipKey(user_message)
                 found   == IF vip_key = "" THEN [text |-> <<>>, calls |-> <<>>]
                            ELSE search_vip_news(vip_key, newsResp, vipResps)
             IN  [branch |-> branch, vip_key |-> vip_key, search_query |-> "",
                  calls  |-> found.calls, vip_resps |-> vipResps,
                  prompt |-> UserText(user_message) \o found.text]
      ELSE IF branch = "news"
        THEN LET search_query == SearchQuery(user_message)
                 found == search_live_news(search_query, newsResp, sportsResp)
             IN  [branch |-> branch, vip_key |-> "",
                  search_query |-> search_query,
                  calls  |-> found.calls, vip_resps |-> <<>>,
                  prompt |-> UserText(user_message) \o found.text]
      ELSE [branch |-> branch, vip_key |-> "", search_query |-> "",
            calls  |-> <<>>, vip_resps |-> <<>>,
            prompt |-> UserText(user_message)]

-----------------------------------------------------------------------------
(* What a request did: the record kept in `last` *)

NoRequest ==
  [route         |-> "",      \* the route handled
   status        |-> 0,       \* HTTP status of the answer
   response      |-> "",      \* the answer's response / briefing / error text
   error         |-> FALSE,   \* the answer carries an error flag or key
   routed        |-> FALSE,   \* the handler got past reading the request
   had_snapshot  |-> FALSE,   \* current_data and last_update were set on arrival
   age           |-> 0,       \* now - last_update on arrival (0 if unset)
   snapshot_age  |-> 0,       \* now - current_data.timestamp on arrival
   refreshes     |-> 0,       \* calls of get_full_briefing
   refresh_resps |-> <<>>,    \* the provider's answers during the refresh
   branch        |-> "",      \* router branch taken
   vip_key       |-> "",
   search_query  |-> "",
   calls         |-> <<>>,    \* news / sports / quote calls made by the branch
   vip_resps     |-> <<>>,    \* the provider's answers for the entity's tickers
   message       |-> "",      \* the user's text
   prompt        |-> <<>>,    \* the text handed to SullyAI.chat
   context       |-> NoData,  \* the data handed to SullyAI.chat
   outbound      |-> <<>>,    \* the messages sent to the completion provider
   engine_calls  |-> 0,       \* calls of SullyAI.chat
   history_len   |-> 0,       \* len(conversation_history) before the call
   logged        |-> FALSE,   \* the conversations row was written
   insights      |-> <<>>,    \* the insights of the answer
   alerts        |-> <<>>,    \* the alerts of the answer
   at            |-> 0,       \* the clock on arrival
   had_data      |-> FALSE,   \* current_data was set on arrival
   completion    |-> <<>>,    \* the provider's outcome for the engine call
   insert        |-> ""]      \* the conversations insert: "ok" or "failed"

\* the cache fields of `last`, read on arrival
Arrival(route) ==
  [NoRequest EXCEPT
     !.route        = route,
     !.at           = now,
     !.had_data     = Truthy(current_data),
     !.had_snapshot = Truthy(current_data) /\ last_update # NoTime,
     !.age          = IF last_update = NoTime THEN 0 ELSE now - last_update,
     !.snapshot_age = IF Truthy(current_data) THEN now - current_data.timestamp
                      ELSE 0]

-----------------------------------------------------------------------------
(* POST /chat *)

NoBody == [none |-> TRUE]

\* NotConfigured with the credential test left out
NotConfiguredNever(engine, key) == FALSE

\* `if sully is None: if not GROQ_API_KEY: return ...`
NotConfigured(engine, key) == engine = NoEngine /\ ~key

\* InsertRow without the inner try / except: a failed insert raises
InsertRowUnguarded(rows, row, dbOK) ==
  IF dbOK THEN [rows |-> Append(rows, row), raised |-> FALSE, insert |-> "ok"]
  ELSE [rows |-> rows, raised |-> TRUE, insert |-> "failed"]

\* Save conversation to history: the INSERT and commit inside their own
\* try / except, which prints the failure and raises nothing
InsertRow(rows, row, dbOK) ==
  IF dbOK THEN [rows |-> Append(rows, row), raised |-> FALSE, insert |-> "ok"]
  ELSE [rows |-> rows, raised |-> FALSE, insert |-> "failed"]

Chat(body, quoteResps, vipResps, newsResp, sportsResp, completion, dbOK) ==
  /\ requests' = requests + 1
  /\ aggregator' = TRUE
  /\ UNCHANGED <<env, now, ticks, args, ret>>
  /\ IF NotConfigured(sully, env.GROQ_API_KEY)
       THEN \* the early return: no engine, nothing fetched
            /\ last' = [Arrival("/chat") EXCEPT
                          !.status = 200,
                          !.response = "API key not configured yet. Please contact support.",
                          !.error = TRUE]
            /\ UNCHANGED <<sully, current_data, last_update, conversations>>
     ELSE IF body = NoBody
       THEN \* data.get raises on None: the outer except answers
            /\ sully' = IF sully = NoEngine THEN NewEngine ELSE sully
            /\ last' = [Arrival("/chat") EXCEPT
                          !.status = 200,
                          !.response = "Sorry, encountered an error: AttributeError",
                          !.error = TRUE]
            /\ UNCHANGED <<current_data, last_update, conversations>>
     ELSE
       \E user_message \in {Get(body, "message", "")},
          stale \in {NeedsRefresh(current_data, last_update, now)} :
         \* Refresh data if needed
         /\ current_data' = IF stale
                              THEN get_full_briefing(STOCK_SYMBOLS, quoteResps, now)
                              ELSE current_data
         /\ last_update' = IF stale THEN now ELSE last_update
         /\ \E routeD \in {Route(user_message, current_data', newsResp,
                                 sportsResp, vipResps)} :
            \E call \in {SullyAI_chat(IF sully = NoEngine THEN NewEngine ELSE sully,
                                      routeD.prompt, current_data', completion)} :
            \E saved \in {IF call.raised
                             THEN [rows |-> conversations, raised |-> FALSE,
                                   insert |-> ""]
                             ELSE InsertRow(conversations,
                                            [message  |-> user_message,
                                             response |-> call.reply], dbOK)} :
              /\ sully' = call.engine
              /\ conversations' = saved.rows
              /\ last' = [Arrival("/chat") EXCEPT
                            !.status        = 200,
                            !.routed        = TRUE,
                            !.refreshes     = IF stale THEN 1 ELSE 0,
                            !.refresh_resps = IF stale THEN quoteResps ELSE <<>>,
                            !.branch        = routeD.branch,
                            !.vip_key       = routeD.vip_key,
                            !.search_query  = routeD.search_query,
                            !.calls         = routeD.calls,
                            !.vip_resps     = routeD.vip_resps,
                            !.message       = user_message,
                            !.prompt        = routeD.prompt,
                            !.context       = current_data',
                            !.outbound      = call.messages,
                            !.engine_calls  = 1,
                            !.history_len   = IF sully = NoEngine THEN 0
                                              ELSE Len(sully.conversation_history),
                            !.response      = IF call.raised
                                                THEN "Sorry, encountered an error: provider error"
                                              ELSE IF saved.raised
                                                THEN "Sorry, encountered an error: database error"
                                                ELSE call.reply,
                            !.error         = call.raised \/ saved.raised,
                            !.completion    = completion,
                            !.insert        = saved.insert,
                            !.logged        = saved.insert = "ok"]

\* time passes between requests
Tick(d) ==
  /\ now' = now + d
  /\ ticks' = ticks + 1
  /\ UNCHANGED <<env, aggregator, sully, current_data, last_update,
                 conversations, last, requests, args, ret>>

-----------------------------------------------------------------------------
(* Inputs: the answers of the upstream providers and the request bodies    *)

\* $112.00 after $100.00: up 12%
QuoteUp == RespQuote(Meta(112000, 100000), <<<<99000>>, <<>>, <<112000>>>>)

\* $94.00 after $100.00: down 6%
QuoteDown == RespQuote(Meta(94000, 100000), <<<<94000>>>>)

\* unchanged
QuoteFlat == RespQuote(Meta(50000, 50000), <<>>)

\* a first trading day: no previous close in the answer
QuoteNoPrev ==
  RespQuote([regularMarketPrice |-> 20004, regularMarketVolume |-> 10], <<>>)

\* previousClose reported as 0
QuoteZeroPrev == RespQuote(Meta(20000, 0), <<>>)

\* prices with a fraction of a cent: $20.004 after $10.006
QuoteSubCent == RespQuote(Meta(20004, 10006), <<>>)

FetchResponses ==
  {QuoteUp, QuoteDown, QuoteNoPrev, QuoteZeroPrev, QuoteSubCent,
   RespStatus(404), RespMalformed, RespException}

SymbolUniverse == {"TSLA", "DJT"}

\* what the provider answers for STOCK_SYMBOLS during one refresh
AllQuoted == <<QuoteUp, QuoteDown, QuoteFlat>>

OneFailed == <<QuoteDown, RespException, QuoteUp>>

AllFailed == <<RespException, RespException, RespException>>

AllRefused == <<RespStatus(404), RespStatus(404), RespStatus(404)>>

Completed(text) == [raised |-> FALSE, content |-> text]

ProviderError == [raised |-> TRUE, content |-> ""]

OneArticle == NewsAnswer(<<[title |-> "Headline", source |-> "Wire"]>>)

RouterBodies ==
  {[message |-> m] : m \in {"How are my stocks looking?", "Any Patriots news?",
                            "What's up with Elon?", "Tesla stock news",
                            "Latest on Brady, Elon and Trump", "Musk and DJT",
                            "DJT today", "Celtics score", "latest headlines",
                            "Good morning"}}
  \cup {[lang |-> "en"], NoBody}

-----------------------------------------------------------------------------
(* Initial states *)

\* the module's globals right after import
ProcessStart ==
  /\ now = 0
  /\ aggregator = FALSE
  /\ sully = NoEngine
  /\ current_data = NoData
  /\ last_update = NoTime
  /\ conversations = <<>>
  /\ last = NoRequest
  /\ requests = 0
  /\ ticks = 0

NoCall == [called |-> FALSE]

-----------------------------------------------------------------------------
(* SpecFetch: the two quote fetchers applied to every bounded symbol list  *)

SymbolLists ==
  UNION {[1..n -> SymbolUniverse] : n \in 0..MaxSymbols}

FetchInit ==
  /\ ProcessStart
  /\ env = [GROQ_API_KEY |-> TRUE, NEWS_API_KEY |-> TRUE]
  /\ \E symbols \in SymbolLists :
       \E responses \in [1..Len(symbols) -> FetchResponses] :
          args = [symbols |-> symbols, responses |-> responses]
  /\ ret = NoCall

CallGetStockData ==
  /\ ret' = [called |-> TRUE, fn |-> "get_stock_data",
             value |-> get_stock_data(args.symbols, args.responses)]
  /\ UNCHANGED <<env, now, aggregator, sully, current_data, last_update,
                 conversations, last, requests, ticks, args>>

CallFetchFromYahoo ==
  /\ ret' = [called |-> TRUE, fn |-> "fetch_stock_data_from_yahoo",
             value |-> fetch_stock_data_from_yahoo(args.symbols, args.responses)]
  /\ UNCHANGED <<env, now, aggregator, sully, current_data, last_update,
                 conversations, last, requests, ticks, args>>

FetchNext == CallGetStockData \/ CallFetchFromYahoo

SpecFetch == FetchInit /\ [][FetchNext]_vars

-----------------------------------------------------------------------------
(* SpecRouter: /chat requests on a fresh process, every message and every  *)
(* outcome of the lookups a branch makes                                   *)

RouterInit ==
  /\ ProcessStart
  /\ env \in [GROQ_API_KEY : BOOLEAN, NEWS_API_KEY : BOOLEAN]
  /\ args = NoCall
  /\ ret = NoCall

RouterChat ==
  /\ requests < RouterRequests
  /\ \E body \in RouterBodies,
        quoteResps \in {AllQuoted, OneFailed, AllRefused},
        vipResps \in {<<QuoteUp>>, <<RespException>>},
        newsResp \in {OneArticle, NewsAnswer(<<>>), NewsException},
        sportsResp \in {SportsAnswer("10-3"), SportsStatus(503)},
        completion \in {Completed("Looking solid, boss."), ProviderError},
        dbOK \in BOOLEAN :
       Chat(body, quoteResps, vipResps, newsResp, sportsResp, completion, dbOK)

RouterNext == RouterChat

SpecRouter == RouterInit /\ [][RouterNext]_vars

-----------------------------------------------------------------------------
(* SpecEngine: SullyAI.chat called again and again on one engine           *)

EngineInit ==
  /\ ProcessStart
  /\ env = [GROQ_API_KEY |-> TRUE, NEWS_API_KEY |-> FALSE]
  /\ args = NoCall
  /\ ret = NoCall

\* one call of sully.chat(user_message, current_data) on the engine
EngineCall(user_message, data, completion) ==
  LET engine == IF sully = NoEngine THEN NewEngine ELSE sully
      call   == SullyAI_chat(engine, user_message, data, completion)
  IN  /\ args' = [called |-> TRUE, user_message |-> user_message, data |-> data,
                  history |-> engine.conversation_history,
                  completion |-> completion]
      /\ ret' = [called |-> TRUE, messages |-> call.messages,
                 raised |-> call.raised, reply |-> call.reply,
                 provider_calls |-> call.provider_calls,
                 successes |-> (IF ret.called THEN ret.successes ELSE 0)
                               + (IF call.raised THEN 0 ELSE 1)]
      /\ sully' = call.engine
      /\ requests' = requests + 1
      /\ UNCHANGED <<env, now, aggregator, current_data, last_update,
                     conversations, last, ticks>>

EngineNext ==
  /\ requests < MaxCalls
  /\ \E user_message \in {UserText("Good morning"), UserText("DJT today")},
        data \in {NoData, get_full_briefing(STOCK_SYMBOLS, AllQuoted, 0)},
        completion \in {Completed("Looking solid, boss."), Completed("Sure."),
                        ProviderError} :
       EngineCall(user_message, data, completion)

SpecEngine == EngineInit /\ [][EngineNext]_vars

-----------------------------------------------------------------------------
(* Insights, alerts and the portfolio narrative *)

\* list.sort(key=lambda x: x['change_pct'], reverse=reverse): a stable sort
SortByChangePct(seq, reverse) ==
  LET Before(x, y) == IF reverse THEN x.change_pct > y.change_pct
                      ELSE x.change_pct < y.change_pct
      Insert(sorted, x) ==
        LET ahead == {i \in 1..Len(sorted) : Before(x, sorted[i])}
            pos   == IF ahead = {} THEN Len(sorted) + 1
                     ELSE CHOOSE i \in ahead : \A j \in ahead : i <= j
        IN  SubSeq(sorted, 1, pos - 1) \o <<x>> \o SubSeq(sorted, pos, Len(sorted))
      F[i \in 0..Len(seq)] == IF i = 0 THEN <<>> ELSE Insert(F[i - 1], seq[i])
  IN  F[Len(seq)]

FirstN(seq, n) == SubSeq(seq, 1, Min(n, Len(seq)))

\* Positions that keeps the quoted symbols of which no shares are held
PositionsUnheld(stocks, portfolio_holdings) ==
  LET F[i \in 0..Len(stocks.keys)] ==
        IF i = 0 THEN <<>>
        ELSE LET symbol == stocks.keys[i]
                 data   == stocks.map[symbol]
                 shares == Get(portfolio_holdings, symbol, 0)
             IN  IF "error" \in DOMAIN data THEN F[i - 1]
                 ELSE Append(F[i - 1],
                        [symbol     |-> symbol,
                         price      |-> Get(data, "price", 0),
                         change     |-> Get(data, "change", 0),
                         change_pct |-> Get(data, "change_percent", 0),
                         shares     |-> shares])
  IN  F[Len(stocks.keys)]

\* the positions a holdings-aware pass keeps: quoted symbols with shares held
Positions(stocks, portfolio_holdings) ==
  LET F[i \in 0..Len(stocks.keys)] ==
        IF i = 0 THEN <<>>
        ELSE LET symbol == stocks.keys[i]
                 data   == stocks.map[symbol]
                 shares == Get(portfolio_holdings, symbol, 0)
             IN  IF "error" \in DOMAIN data THEN F[i - 1]
                 ELSE IF shares = 0 THEN F[i - 1]
                 ELSE Append(F[i - 1],
                        [symbol     |-> symbol,
                         price      |-> Get(data, "price", 0),
                         change     |-> Get(data, "change", 0),
                         change_pct |-> Get(data, "change_percent", 0),
                         shares     |-> shares])
  IN  F[Len(stocks.keys)]

\* the total of a sequence of amounts
SumOver(amounts) ==
  LET F[i \in 0..Len(amounts)] == IF i = 0 THEN 0 ELSE F[i - 1] + amounts[i]
  IN  F[Len(amounts)]

STOCK_NAMES ==
  ("AAPL" :> "Apple" @@ "GOOGL" :> "Google" @@ "MSFT" :> "Microsoft" @@
   "AMZN" :> "Amazon" @@ "TSLA" :> "Tesla" @@ "META" :> "Meta" @@
   "NVDA" :> "NVIDIA" @@ "DJT" :> "Truth Social")

\* the dict appended to gainers or losers for a position
Mover(p) ==
  [symbol     |-> p.symbol,
   name       |-> IF p.symbol \in DOMAIN STOCK_NAMES THEN STOCK_NAMES[p.symbol]
                  ELSE p.symbol,
   change     |-> p.change,
   change_pct |-> p.change_pct,
   shares     |-> p.shares]

Movers(positions) == [i \in 1..Len(positions) |-> Mover(positions[i])]

analyze_portfolio_performance(stocks, portfolio_holdings) ==
  LET held         == Positions(stocks, portfolio_holdings)
      total_value  == SumOver([i \in 1..Len(held) |->
                                 held[i].price * held[i].shares])
      total_change == SumOver([i \in 1..Len(held) |->
                                 held[i].change * held[i].shares])
      Up(p)        == p.change > 0
      Down(p)      == p.change < 0
      gainers      == SortByChangePct(Movers(SelectSeq(held, Up)), TRUE)
      losers       == SortByChangePct(Movers(SelectSeq(held, Down)), FALSE)
      total_change_pct ==
        IF total_value > total_change
          THEN RoundHalfEven(total_change * 10000, total_value - total_change)
          ELSE 0
  IN  IF total_value = 0
        THEN <<[kind |-> "no_holdings"]>>
        ELSE <<[kind             |-> "portfolio_summary",
                total_value      |-> total_value,
                total_change     |-> total_change,
                total_change_pct |-> total_change_pct,
                gainers          |-> FirstN(gainers, 3),
                losers           |-> FirstN(losers, 3)]>>

\* SymbolInsight with the notable-move test ahead of the other two
SymbolInsightNotableFirst(symbol, data) ==
  LET change_pct == Get(data, "change_percent", 0)
  IN  IF Abs(change_pct) > 300
        THEN <<[type |-> "notable_move", symbol |-> symbol,
                change_pct |-> change_pct, severity |-> "neutral"]>>
      ELSE IF change_pct > 500
        THEN <<[type |-> "strong_gain", symbol |-> symbol,
                change_pct |-> change_pct, severity |-> "positive"]>>
      ELSE IF change_pct < -500
        THEN <<[type |-> "sharp_decline", symbol |-> symbol,
                change_pct |-> change_pct, severity |-> "negative"]>>
      ELSE <<>>

\* the per-symbol insight of one entry, or <<>>; change_percent is in
\* hundredths of a percent
SymbolInsight(symbol, data) ==
  LET change_pct == Get(data, "change_percent", 0)
  IN  IF change_pct > 500
        THEN <<[type |-> "strong_gain", symbol |-> symbol,
                change_pct |-> change_pct, severity |-> "positive"]>>
      ELSE IF change_pct < -500
        THEN <<[type |-> "sharp_decline", symbol |-> symbol,
                change_pct |-> change_pct, severity |-> "negative"]>>
      ELSE IF Abs(change_pct) > 300
        THEN <<[type |-> "notable_move", symbol |-> symbol,
                change_pct |-> change_pct, severity |-> "neutral"]>>
      ELSE <<>>

\* the insights list after the for loop of extract_insights
PerSymbolInsights(stocks) ==
  LET F[i \in 0..Len(stocks.keys)] ==
        IF i = 0 THEN <<>>
        ELSE LET symbol == stocks.keys[i]
                 data   == stocks.map[symbol]
             IN  IF "error" \in DOMAIN data THEN F[i - 1]
                 ELSE F[i - 1] \o SymbolInsight(symbol, data)
  IN  F[Len(stocks.keys)]

\* BroadRally with `>=` for `>`
BroadRallyAtThreshold(stocks) ==
  LET quoted        == {s \in DOMAIN stocks.map : "error" \notin DOMAIN stocks.map[s]}
      total_gainers == Cardinality({s \in quoted :
                                      Get(stocks.map[s], "change_percent", 0) > 0})
      total_stocks  == Cardinality(quoted)
  IN  IF 4 * total_gainers >= 3 * total_stocks
        THEN <<[type |-> "broad_rally", symbol |-> "PORTFOLIO",
                total_gainers |-> total_gainers,
                total_stocks |-> total_stocks,
                severity |-> "positive"]>>
        ELSE <<>>

\* the portfolio-wide insight: total_gainers > total_stocks * 0.75
BroadRally(stocks) ==
  LET quoted        == {s \in DOMAIN stocks.map : "error" \notin DOMAIN stocks.map[s]}
      total_gainers == Cardinality({s \in quoted :
                                      Get(stocks.map[s], "change_percent", 0) > 0})
      total_stocks  == Cardinality(quoted)
  IN  IF 4 * total_gainers > 3 * total_stocks
        THEN <<[type |-> "broad_rally", symbol |-> "PORTFOLIO",
                total_gainers |-> total_gainers,
                total_stocks |-> total_stocks,
                severity |-> "positive"]>>
        ELSE <<>>

\* extract_insights with the clock read into every insight
extract_insightsStamped(stocks) ==
  LET insights == FirstN(PerSymbolInsights(stocks) \o BroadRally(stocks), 5)
  IN  [i \in 1..Len(insights) |->
         [type |-> insights[i].type, symbol |-> insights[i].symbol,
          severity |-> insights[i].severity, generated_at |-> now]]

\* extract_insights with the portfolio-wide insight put ahead of the others
extract_insightsRallyFirst(stocks) ==
  FirstN(BroadRally(stocks) \o PerSymbolInsights(stocks), 5)

\* extract_insights: the loop, the portfolio-wide insight, then insights[:5]
extract_insights(stocks) ==
  FirstN(PerSymbolInsights(stocks) \o BroadRally(stocks), 5)

\* SymbolAlert with the `> 5` test ahead of the `> 10` test
SymbolAlertWarningFirst(symbol, data, t) ==
  LET change_pct == Get(data, "change_percent", 0)
  IN  IF Abs(change_pct) > 500
        THEN <<[type |-> "significant_move", symbol |-> symbol,
                change_pct |-> change_pct, severity |-> "warning", timestamp |-> t]>>
      ELSE IF Abs(change_pct) > 1000
        THEN <<[type |-> "extreme_move", symbol |-> symbol,
                change_pct |-> change_pct, severity |-> "urgent", timestamp |-> t]>>
      ELSE <<>>

\* the alert of one entry, or <<>>; t is datetime.now()
SymbolAlert(symbol, data, t) ==
  LET change_pct == Get(data, "change_percent", 0)
  IN  IF Abs(change_pct) > 1000
        THEN <<[type |-> "extreme_move", symbol |-> symbol,
                change_pct |-> change_pct, severity |-> "urgent", timestamp |-> t]>>
      ELSE IF Abs(change_pct) > 500
        THEN <<[type |-> "significant_move", symbol |-> symbol,
                change_pct |-> change_pct, severity |-> "warning", timestamp |-> t]>>
      ELSE <<>>

detect_alerts(stocks, t) ==
  LET F[i \in 0..Len(stocks.keys)] ==
        IF i = 0 THEN <<>>
        ELSE LET symbol == stocks.keys[i]
                 data   == stocks.map[symbol]
             IN  IF "error" \in DOMAIN data THEN F[i - 1]
                 ELSE F[i - 1] \o SymbolAlert(symbol, data, t)
  IN  F[Len(stocks.keys)]

-----------------------------------------------------------------------------
(* POST /api/briefing, GET /api/insights, GET /api/stocks *)

\* the briefing prompt: the morning text or the end-of-day text
BriefingPrompt(time_of_day, portfolio_analysis, news_section) ==
  <<[kind      |-> IF time_of_day = "morning" THEN "morning_briefing"
                   ELSE "end_of_day_briefing",
     portfolio |-> portfolio_analysis,
     news      |-> news_section]>>

\* newsResps answers the four News API calls, sportsResps the two ESPN calls,
\* vipResps the ticker lookups of elon_musk and trump; holdings is what
\* get_user_portfolio_holdings() reads
Briefing(body, quoteResps, holdings, newsResps, sportsResps, vipResps, completion) ==
  /\ requests' = requests + 1
  /\ aggregator' = TRUE
  /\ UNCHANGED <<env, now, ticks, args, ret, last_update, conversations>>
  /\ IF NotConfigured(sully, env.GROQ_API_KEY)
       THEN /\ last' = [Arrival("/api/briefing") EXCEPT
                          !.status = 400,
                          !.response = "API key not configured",
                          !.error = TRUE]
            /\ UNCHANGED <<sully, current_data>>
     ELSE IF body = NoBody
       THEN /\ sully' = IF sully = NoEngine THEN NewEngine ELSE sully
            /\ last' = [Arrival("/api/briefing") EXCEPT
                          !.status = 500,
                          !.response = "AttributeError",
                          !.error = TRUE]
            /\ UNCHANGED current_data
     ELSE
       \E time_of_day \in {Get(body, "time", "morning")},
          stale \in {NeedsRefresh(current_data, last_update, now)} :
         \* Get fresh market data: current_data is stored, last_update is not
         /\ current_data' = IF stale
                              THEN get_full_briefing(STOCK_SYMBOLS, quoteResps, now)
                              ELSE current_data
         /\ \E patriots \in {search_live_news("patriots", newsResps[1], sportsResps[1])},
               celtics \in {search_live_news("celtics", newsResps[2], sportsResps[2])},
               elon \in {search_vip_news("elon_musk", newsResps[3], vipResps[1])},
               trump \in {search_vip_news("trump", newsResps[4], vipResps[2])} :
            \E prompt \in {BriefingPrompt(time_of_day,
                             analyze_portfolio_performance(current_data'.stocks,
                                                           holdings),
                             patriots.text \o celtics.text \o elon.text
                               \o trump.text)} :
            \E call \in {SullyAI_chat(IF sully = NoEngine THEN NewEngine ELSE sully,
                                      prompt, current_data', completion)} :
              /\ sully' = call.engine
              /\ last' = [Arrival("/api/briefing") EXCEPT
                            !.status        = IF call.raised THEN 500 ELSE 200,
                            !.routed        = TRUE,
                            !.refreshes     = IF stale THEN 1 ELSE 0,
                            !.refresh_resps = IF stale THEN quoteResps ELSE <<>>,
                            !.calls         = patriots.calls \o celtics.calls
                                              \o elon.calls \o trump.calls,
                            !.prompt        = prompt,
                            !.context       = current_data',
                            !.outbound      = call.messages,
                            !.engine_calls  = 1,
                            !.history_len   = IF sully = NoEngine THEN 0
                                              ELSE Len(sully.conversation_history),
                            !.response      = IF call.raised THEN "provider error"
                                              ELSE call.reply,
                            !.error         = call.raised,
                            !.insights      = IF call.raised THEN <<>>
                                              ELSE extract_insights(current_data'.stocks),
                            !.alerts        = IF call.raised THEN <<>>
                                              ELSE detect_alerts(current_data'.stocks, now)]

Insights(quoteResps) ==
  /\ requests' = requests + 1
  /\ aggregator' = TRUE
  /\ UNCHANGED <<env, now, ticks, args, ret, last_update, conversations, sully>>
  /\ \E stale \in {NeedsRefresh(current_data, last_update, now)} :
       \* Get fresh data: current_data is stored, last_update is not
       /\ current_data' = IF stale
                            THEN get_full_briefing(STOCK_SYMBOLS, quoteResps, now)
                            ELSE current_data
       /\ last' = [Arrival("/api/insights") EXCEPT
                     !.status        = 200,
                     !.routed        = TRUE,
                     !.refreshes     = IF stale THEN 1 ELSE 0,
                     !.refresh_resps = IF stale THEN quoteResps ELSE <<>>,
                     !.context       = current_data',
                     !.insights      = extract_insights(current_data'.stocks),
                     !.alerts        = detect_alerts(current_data'.stocks, now)]

\* GetStocks storing what it fetched in the quote cache
GetStocksCaching(symbols_param, responses) ==
  /\ requests' = requests + 1
  /\ UNCHANGED <<env, now, ticks, args, ret, aggregator, sully, conversations>>
  /\ \E symbols \in {IF symbols_param # <<>> THEN symbols_param ELSE STOCK_SYMBOLS} :
     \E stock_data \in {fetch_stock_data_from_yahoo(symbols, responses)} :
       /\ current_data' = [stocks |-> stock_data, timestamp |-> now]
       /\ last_update' = now
       /\ last' = [Arrival("/api/stocks") EXCEPT
                     !.status        = 200,
                     !.routed        = TRUE,
                     !.refresh_resps = responses,
                     !.calls         = [i \in 1..Len(symbols) |-> "yahoo"],
                     !.context       = [stocks |-> stock_data,
                                        count  |-> Len(stock_data.keys)]]

\* symbols_param is the `symbols` query parameter ("" when absent), already
\* split on commas into symbols; responses answers their lookups
GetStocks(symbols_param, responses) ==
  /\ requests' = requests + 1
  /\ UNCHANGED <<env, now, ticks, args, ret, aggregator, sully, current_data,
                 last_update, conversations>>
  /\ \E symbols \in {IF symbols_param # <<>> THEN symbols_param ELSE STOCK_SYMBOLS} :
     \E stock_data \in {fetch_stock_data_from_yahoo(symbols, responses)} :
       last' = [Arrival("/api/stocks") EXCEPT
                  !.status        = 200,
                  !.routed        = TRUE,
                  !.refresh_resps = responses,
                  !.calls         = [i \in 1..Len(symbols) |-> "yahoo"],
                  !.context       = [stocks |-> stock_data,
                                     count  |-> Len(stock_data.keys)]]

-----------------------------------------------------------------------------
(* SpecCache: the three routes that share the quote cache, with time       *)
(* passing between requests                                                *)

TickSteps == {1000, 1801, 86500}

CacheQuotes == {AllQuoted, AllFailed}

CacheInit ==
  /\ ProcessStart
  /\ env = [GROQ_API_KEY |-> TRUE, NEWS_API_KEY |-> FALSE]
  /\ args = NoCall
  /\ ret = NoCall

CacheChat ==
  /\ requests < CacheRequests
  /\ \E quoteResps \in CacheQuotes,
        completion \in {Completed("Looking solid, boss."), ProviderError} :
       Chat([message |-> "Good morning"], quoteResps, <<QuoteUp>>, NewsException,
            SportsStatus(503), completion, TRUE)

CacheBriefing ==
  /\ requests < CacheRequests
  /\ \E quoteResps \in CacheQuotes,
        completion \in {Completed("Morning, boss."), ProviderError} :
       Briefing([time |-> "morning"], quoteResps, ("TSLA" :> 2),
                <<NewsException, NewsException, NewsException, NewsException>>,
                <<SportsStatus(503), SportsStatus(503)>>,
                <<<<QuoteUp>>, <<QuoteUp>>>>, completion)

CacheInsights ==
  /\ requests < CacheRequests
  /\ \E quoteResps \in CacheQuotes : Insights(quoteResps)

CacheTick ==
  /\ ticks < MaxTicks
  /\ \E d \in TickSteps : Tick(d)

CacheStocks ==
  /\ requests < CacheRequests
  /\ \E symbols_param \in {<<>>, <<"DJT">>} :
       GetStocks(symbols_param, IF symbols_param = <<>> THEN AllQuoted
                                ELSE <<RespStatus(404)>>)

CacheNext ==
  CacheChat \/ CacheBriefing \/ CacheInsights \/ CacheStocks \/ CacheTick

SpecCache == CacheInit /\ [][CacheNext]_vars

-----------------------------------------------------------------------------
(* SpecNews: the two news lookups applied to every bounded query, entity   *)
(* key and provider outcome                                                *)

NewsQueries ==
  {"New England Patriots", "Boston Celtics", "patriots", "celtics", "Go Pats",
   "latest headlines", "Musk and DJT"}

NewsResponses ==
  {OneArticle, NewsAnswer(<<>>), NewsStatus(500), NewsMalformed, NewsException}

SportsResponses ==
  {SportsAnswer("10-3"), SportsStatus(503), SportsMalformed, SportsException}

NewsInit ==
  /\ ProcessStart
  /\ env \in [GROQ_API_KEY : {TRUE}, NEWS_API_KEY : BOOLEAN]
  /\ \E query \in NewsQueries, vip_key \in DOMAIN VIP_TRACKING,
        newsResp \in NewsResponses, sportsResp \in SportsResponses,
        quoteResps \in {<<QuoteUp>>, <<RespException>>} :
       args = [query |-> query, vip_key |-> vip_key, newsResp |-> newsResp,
               sportsResp |-> sportsResp, quoteResps |-> quoteResps]
  /\ ret = NoCall

CallSearchLiveNews ==
  /\ ret' = [called |-> TRUE, fn |-> "search_live_news",
             value |-> search_live_news(args.query, args.newsResp,
                                        args.sportsResp)]
  /\ UNCHANGED <<env, now, aggregator, sully, current_data, last_update,
                 conversations, last, requests, ticks, args>>

CallSearchVipNews ==
  /\ ret' = [called |-> TRUE, fn |-> "search_vip_news",
             value |-> search_vip_news(args.vip_key, args.newsResp,
                                       args.quoteResps)]
  /\ UNCHANGED <<env, now, aggregator, sully, current_data, last_update,
                 conversations, last, requests, ticks, args>>

NewsNext == CallSearchLiveNews \/ CallSearchVipNews

SpecNews == NewsInit /\ [][NewsNext]_vars

-----------------------------------------------------------------------------
(* SpecInsights: extract_insights and detect_alerts called again and again *)
(* on one snapshot while the clock advances                                *)

\* a quote that moved by pct hundredths of a percent from $100.00
QuoteMove(pct) == RespQuote(Meta(100000 + 10 * pct, 100000), <<>>)

\* moves on and around every threshold of the extractor
ThresholdMoves ==
  {0, 300, 301, 500, 501, 1000, 1001, 1200,
   -300, -301, -500, -501, -1000, -1001}

MoverResponses == {QuoteMove(pct) : pct \in ThresholdMoves} \cup {RespException}

WideResponses == {QuoteMove(600), QuoteMove(0), RespException}

\* the configured symbol list STOCK_SYMBOLS may hold
InsightSymbols == <<"TSLA", "AAPL", "NVDA", "MSFT", "GOOGL", "AMZN", "META", "DJT">>

InsightSnapshots ==
  UNION {{get_full_briefing(SubSeq(InsightSymbols, 1, n), responses, 0) :
            responses \in [1..n -> MoverResponses]} : n \in 0..MaxMovers}

WideSnapshots ==
  UNION {{get_full_briefing(SubSeq(InsightSymbols, 1, n), responses, 0) :
            responses \in [1..n -> WideResponses]} : n \in 4..MaxWide}

InsightsInit ==
  /\ ProcessStart
  /\ env = [GROQ_API_KEY |-> TRUE, NEWS_API_KEY |-> FALSE]
  /\ \E snapshot \in InsightSnapshots \cup WideSnapshots :
       args = [stocks |-> snapshot.stocks]
  /\ ret = NoCall

\* insights = extract_insights(stocks); alerts = detect_alerts(stocks), as
\* get_insights and get_briefing call them; `first` keeps the first call's
\* results
CallExtractors ==
  /\ requests < ExtractorCalls
  /\ requests' = requests + 1
  /\ \E insights \in {extract_insights(args.stocks)},
        alerts \in {detect_alerts(args.stocks, now)} :
       ret' = [called     |-> TRUE,
               at         |-> now,
               per_symbol |-> PerSymbolInsights(args.stocks),
               insights   |-> insights,
               alerts     |-> alerts,
               first      |-> IF ret.called THEN ret.first
                              ELSE [at |-> now, stocks |-> args.stocks,
                                    insights |-> insights, alerts |-> alerts]]
  /\ UNCHANGED <<env, now, aggregator, sully, current_data, last_update,
                 conversations, last, ticks, args>>

InsightsTick ==
  /\ ticks < MaxTicks
  /\ Tick(60)

InsightsNext == CallExtractors \/ InsightsTick

SpecInsights == InsightsInit /\ [][InsightsNext]_vars

-----------------------------------------------------------------------------
(* SpecPortfolio: analyze_portfolio_performance applied to every bounded   *)
(* snapshot and every holdings dict                                        *)

PortfolioResponses ==
  {QuoteMove(1200), QuoteMove(600), QuoteMove(-600), QuoteMove(-1200),
   RespException}

PortfolioSnapshots ==
  UNION {{get_full_briefing(SubSeq(InsightSymbols, 1, n), responses, 0) :
            responses \in [1..n -> PortfolioResponses]} : n \in 0..MaxHeld}

\* shares a row of the portfolio table records for a symbol; <<>> is no row
ShareCounts == {<<>>, <<0>>, <<3>>}

\* the rows tried for the i-th symbol: a missing row for the first two only
RowChoices(i) == IF i <= 2 THEN ShareCounts ELSE ShareCounts \ {<<>>}

\* the dict get_user_portfolio_holdings builds from the rows
HoldingsOf(rows) ==
  [s \in {x \in DOMAIN rows : rows[x] # <<>>} |-> rows[s][1]]

PortfolioInit ==
  /\ ProcessStart
  /\ env = [GROQ_API_KEY |-> TRUE, NEWS_API_KEY |-> FALSE]
  /\ \E snapshot \in PortfolioSnapshots :
       \E rows \in {r \in [1..Len(snapshot.stocks.keys) -> ShareCounts] :
                       \A i \in DOMAIN r : r[i] \in RowChoices(i)} :
          args = [stocks |-> snapshot.stocks,
                  portfolio_holdings |->
                    HoldingsOf([s \in KeySet(snapshot.stocks) |->
                                  rows[CHOOSE i \in DOMAIN rows :
                                         snapshot.stocks.keys[i] = s]])]
  /\ ret = NoCall

CallAnalyze ==
  /\ ~ret.called
  /\ ret' = [called |-> TRUE,
             value  |-> analyze_portfolio_performance(args.stocks,
                                                      args.portfolio_holdings)]
  /\ UNCHANGED <<env, now, aggregator, sully, current_data, last_update,
                 conversations, last, requests, ticks, args>>

PortfolioNext == CallAnalyze

SpecPortfolio == PortfolioInit /\ [][PortfolioNext]_vars

-----------------------------------------------------------------------------
(* SpecOverlap: requests handled by concurrent worker threads (app.run     *)
(* serves each request on its own thread).  The cache part of a handler is *)
(* split at every read and write of the shared globals; args holds the     *)
(* requests in flight, ret counts the staleness tests and the upstream     *)
(* work.  Each worker serves one request.                                  *)

\* the three routes that read the quote cache
CacheRoutes == {"/chat", "/api/briefing", "/api/insights"}

Workers == 1..MaxWorkers

Idle == [pc |-> "idle"]

\* the worker has answered its request
Answered(route, stale) == [pc |-> "answered", route |-> route, stale |-> stale]

\* AfterTest with an in-flight guard: a stale test does not fetch while another
\* worker is already refreshing
AfterTestGuarded(stale, busy) == IF stale /\ ~busy THEN "fetch" ELSE "use"

\* where a handler goes after `if not current_data or not last_update or ...`
AfterTest(stale, busy) == IF stale THEN "fetch" ELSE "use"

\* what the provider may answer to the lookup after `done` lookups of a
\* refresh: the first symbol is quoted or times out, the others are quoted
OverlapAnswers(done) == IF done = 0 THEN {QuoteUp, RespException} ELSE {QuoteFlat}

OverlapInit ==
  /\ ProcessStart
  /\ env = [GROQ_API_KEY |-> TRUE, NEWS_API_KEY |-> FALSE]
  /\ args = [w \in Workers |-> Idle]
  /\ ret = [stale_tests |-> 0, refreshes |-> 0, lookups |-> 0, finished |-> {}]

\* a request reaches the cache part of its handler
Arrive(w, route) ==
  /\ args[w].pc = "idle"
  /\ requests' = requests + 1
  /\ aggregator' = TRUE
  /\ args' = [args EXCEPT ![w] = [pc |-> "test", route |-> route, stale |-> FALSE,
                                  stocks |-> EmptyDict, done |-> 0,
                                  snapshot |-> NoData]]
  /\ UNCHANGED <<env, now, sully, current_data, last_update, conversations,
                 last, ticks, ret>>

\* the staleness test, read from the globals as they are now
TestStale(w) ==
  /\ args[w].pc = "test"
  /\ \E stale \in {NeedsRefresh(current_data, last_update, now)} :
       /\ args' = [args EXCEPT
                     ![w].stale = stale,
                     ![w].pc = AfterTest(stale,
                                 \E v \in Workers \ {w} :
                                    args[v].pc \in {"fetch", "store"})]
       /\ ret' = [ret EXCEPT !.stale_tests = @ + (IF stale THEN 1 ELSE 0)]
  /\ UNCHANGED <<env, now, aggregator, sully, current_data, last_update,
                 conversations, last, requests, ticks>>

\* FetchLookup writing each entry straight into the shared snapshot
FetchLookupInPlace(w, resp) ==
  /\ args[w].pc = "fetch"
  /\ args[w].done < Len(STOCK_SYMBOLS)
  /\ args' = [args EXCEPT
                ![w].stocks = Lookup(@, STOCK_SYMBOLS[args[w].done + 1], resp),
                ![w].done = @ + 1]
  /\ current_data' = [stocks |-> Lookup(IF Truthy(current_data)
                                          THEN current_data.stocks ELSE EmptyDict,
                                        STOCK_SYMBOLS[args[w].done + 1], resp),
                      timestamp |-> now]
  /\ ret' = [ret EXCEPT !.lookups = @ + 1]
  /\ UNCHANGED <<env, now, aggregator, sully, last_update,
                 conversations, last, requests, ticks>>

\* one turn of the loop of get_stock_data, on the dict local to the call
FetchLookup(w, resp) ==
  /\ args[w].pc = "fetch"
  /\ args[w].done < Len(STOCK_SYMBOLS)
  /\ args' = [args EXCEPT
                ![w].stocks = Lookup(@, STOCK_SYMBOLS[args[w].done + 1], resp),
                ![w].done = @ + 1]
  /\ ret' = [ret EXCEPT !.lookups = @ + 1]
  /\ UNCHANGED <<env, now, aggregator, sully, current_data, last_update,
                 conversations, last, requests, ticks>>

\* get_full_briefing returns {'stocks': ..., 'timestamp': datetime.now()}
FinishFetch(w) ==
  /\ args[w].pc = "fetch"
  /\ args[w].done = Len(STOCK_SYMBOLS)
  /\ \E snapshot \in {[stocks |-> args[w].stocks, timestamp |-> now]} :
       /\ args' = [args EXCEPT ![w].snapshot = snapshot, ![w].pc = "store"]
       /\ ret' = [ret EXCEPT !.refreshes = @ + 1,
                             !.finished = @ \cup {snapshot}]
  /\ UNCHANGED <<env, now, aggregator, sully, current_data, last_update,
                 conversations, last, requests, ticks>>

\* current_data = <the snapshot returned>
StoreSnapshot(w) ==
  /\ args[w].pc = "store"
  /\ current_data' = args[w].snapshot
  /\ args' = [args EXCEPT ![w].pc = IF args[w].route = "/chat" THEN "stamp"
                                    ELSE "use"]
  /\ UNCHANGED <<env, now, aggregator, sully, last_update, conversations,
                 last, requests, ticks, ret>>

\* last_update = datetime.now(), in /chat only
StampTime(w) ==
  /\ args[w].pc = "stamp"
  /\ last_update' = now
  /\ args' = [args EXCEPT ![w].pc = "use"]
  /\ UNCHANGED <<env, now, aggregator, sully, current_data, conversations,
                 last, requests, ticks, ret>>

\* the handler reads current_data to build its answer
UseSnapshot(w) ==
  /\ args[w].pc = "use"
  /\ last' = [Arrival(args[w].route) EXCEPT
                !.status    = 200,
                !.routed    = TRUE,
                !.refreshes = IF args[w].stale THEN 1 ELSE 0,
                !.context   = current_data]
  /\ args' = [args EXCEPT ![w] = Answered(args[w].route, args[w].stale)]
  /\ UNCHANGED <<env, now, aggregator, sully, current_data, last_update,
                 conversations, requests, ticks, ret>>

OverlapNext ==
  \/ \E w \in Workers, route \in CacheRoutes : Arrive(w, route)
  \/ \E w \in Workers : TestStale(w)
  \/ \E w \in Workers :
        /\ args[w].pc = "fetch"
        /\ \E resp \in OverlapAnswers(args[w].done) : FetchLookup(w, resp)
  \/ \E w \in Workers : FinishFetch(w)
  \/ \E w \in Workers : StoreSnapshot(w)
  \/ \E w \in Workers : StampTime(w)
  \/ \E w \in Workers : UseSnapshot(w)

SpecOverlap == OverlapInit /\ [][OverlapNext]_vars

-----------------------------------------------------------------------------
(* SpecEngineInit: /chat and /api/briefing requests on concurrent worker   *)
(* threads, split where a handler reads or writes the global `sully`       *)

EngineRoutes == {"/chat", "/api/briefing"}

\* the k-th SullyAI object constructed in the process
EngineObject(k) == [id |-> k] @@ NewEngine

\* the text a request hands to sully.chat
PromptOf(route) ==
  IF route = "/chat" THEN UserText("Good morning")
  ELSE BriefingPrompt("morning", <<[kind |-> "no_holdings"]>>, <<>>)

EngineInitInit ==
  /\ ProcessStart
  /\ env = [GROQ_API_KEY |-> TRUE, NEWS_API_KEY |-> FALSE]
  /\ args = [w \in Workers |-> Idle]
  /\ ret = [constructed |-> 0, appended |-> 0, orphaned |-> 0]

\* the request reaches its handler
Enter(w, route) ==
  /\ args[w].pc = "idle"
  /\ requests' = requests + 1
  /\ aggregator' = TRUE
  /\ args' = [args EXCEPT ![w] = [pc |-> "init", route |-> route, self |-> 0,
                                  outbound |-> <<>>, seen |-> 0]]
  /\ UNCHANGED <<env, now, sully, current_data, last_update, conversations,
                 last, ticks, ret>>

\* `if sully is None:` with the credential present
TestEngine(w) ==
  /\ args[w].pc = "init"
  /\ args' = [args EXCEPT ![w].pc = IF sully = NoEngine THEN "construct"
                                    ELSE "call"]
  /\ UNCHANGED <<env, now, aggregator, sully, current_data, last_update,
                 conversations, last, requests, ticks, ret>>

\* `sully = SullyAI(GROQ_API_KEY, BOSTON_INTENSITY)`
Construct(w) ==
  /\ args[w].pc = "construct"
  /\ sully' = EngineObject(ret.constructed + 1)
  /\ ret' = [ret EXCEPT !.constructed = @ + 1]
  /\ args' = [args EXCEPT ![w].pc = "call"]
  /\ UNCHANGED <<env, now, aggregator, current_data, last_update,
                 conversations, last, requests, ticks>>

\* the cache part of the handler, then `sully.chat(...)` up to the blocking
\* completion call: the global is read once, the messages are built from the
\* history of the object it names
BeginChat(w) ==
  /\ args[w].pc = "call"
  /\ \E data \in {IF NeedsRefresh(current_data, last_update, now)
                    THEN get_full_briefing(STOCK_SYMBOLS, AllQuoted, now)
                    ELSE current_data} :
       /\ current_data' = data
       /\ last_update' = IF args[w].route = "/chat"
                            /\ NeedsRefresh(current_data, last_update, now)
                           THEN now ELSE last_update
       /\ args' = [args EXCEPT
                     ![w].pc = "await",
                     ![w].self = sully.id,
                     ![w].seen = Len(sully.conversation_history),
                     ![w].outbound = BuildMessages(sully, PromptOf(args[w].route),
                                                   data)]
  /\ UNCHANGED <<env, now, aggregator, sully, conversations, last, requests,
                 ticks, ret>>

\* the completion call returns or raises; on success the two turns are
\* appended to the history of the object the call was made on
EndChat(w, completion) ==
  /\ args[w].pc = "await"
  /\ \E call \in {SullyAI_chat(IF sully.id = args[w].self THEN sully
                               ELSE EngineObject(args[w].self),
                               PromptOf(args[w].route), current_data,
                               completion)} :
       /\ sully' = IF sully.id = args[w].self THEN call.engine ELSE sully
       /\ ret' = [ret EXCEPT
                    !.appended = @ + (IF call.raised THEN 0 ELSE 2),
                    !.orphaned = @ + (IF ~call.raised /\ sully.id # args[w].self
                                        THEN 2 ELSE 0)]
       /\ last' = [Arrival(args[w].route) EXCEPT
                     !.status       = IF call.raised /\ args[w].route # "/chat"
                                        THEN 500 ELSE 200,
                     !.error        = call.raised,
                     !.routed       = TRUE,
                     !.outbound     = args[w].outbound,
                     !.engine_calls = 1,
                     !.history_len  = args[w].seen,
                     !.completion   = completion]
       /\ args' = [args EXCEPT ![w] = Answered(args[w].route, FALSE)]
  /\ UNCHANGED <<env, now, aggregator, current_data, last_update,
                 conversations, requests, ticks>>

EngineInitNext ==
  \/ \E w \in Workers, route \in EngineRoutes : Enter(w, route)
  \/ \E w \in Workers : TestEngine(w)
  \/ \E w \in Workers : Construct(w)
  \/ \E w \in Workers : BeginChat(w)
  \/ \E w \in Workers, completion \in {Completed("Sure."), ProviderError} :
        EndChat(w, completion)

SpecEngineInit == EngineInitInit /\ [][EngineInitNext]_vars

-----------------------------------------------------------------------------
(* SpecTables: the watchlist and portfolio routes on the two tables; ret   *)
(* holds the rows of the tables, args the request and the rows before it   *)

UpperChar(c) ==
  IF \E i \in 1..26 : LowerCase[i] = c
    THEN UpperCase[CHOOSE i \in 1..26 : LowerCase[i] = c]
    ELSE c

\* symbol.upper(), on character sequences
Upper(symbol) == [i \in 1..Len(symbol) |-> UpperChar(symbol[i])]

\* INSERT OR REPLACE under UNIQUE(user_id, symbol): the conflicting row goes
InsertOrReplace(rows, row) ==
  {r \in rows : ~(r.user_id = row.user_id /\ r.symbol = row.symbol)} \cup {row}

\* INSERT ... ON CONFLICT(user_id, symbol) DO UPDATE SET shares = excluded.shares
InsertOrUpdate(rows, row) ==
  IF \E r \in rows : r.user_id = row.user_id /\ r.symbol = row.symbol
    THEN {IF r.user_id = row.user_id /\ r.symbol = row.symbol
            THEN [r EXCEPT !.shares = row.shares] ELSE r : r \in rows}
    ELSE rows \cup {row}

\* DELETE FROM watchlists WHERE user_id = ? AND symbol = ?
DeleteWhere(rows, user_id, symbol) ==
  {r \in rows : ~(r.user_id = user_id /\ r.symbol = symbol)}

\* a JSON value for `shares`: float() takes a number and raises on other text
Number(n) == [numeric |-> TRUE, value |-> n]

NotANumber == [numeric |-> FALSE, value |-> 0]

\* the id of the row get_or_create_user() returns for 'boss'
BossId == 1

\* session['user_id'] of the logged-in sessions
SessionUsers == {1, 2}

PostedSymbols ==
  {<<>>, <<"d", "j", "t">>, <<"D", "j", "t">>, <<"D", "J", "T">>, <<"f">>, <<"F">>}

PostedNotes == {"", "earnings next week"}

PostedShares == {Number(0), Number(3), NotANumber}

TablesInit ==
  /\ ProcessStart
  /\ env = [GROQ_API_KEY |-> TRUE, NEWS_API_KEY |-> FALSE]
  /\ args = NoCall
  /\ ret = [watchlists |-> {}, portfolio |-> {}]

\* POST /api/watchlist
AddToWatchlist(user_id, body) ==
  /\ args' = [called |-> TRUE, method |-> "POST", route |-> "/api/watchlist",
              user_id |-> user_id, body |-> body, before |-> ret]
  /\ \E symbol \in {Upper(body.symbol)} :
       IF symbol = <<>>
         THEN /\ last' = [Arrival("/api/watchlist") EXCEPT
                            !.status = 400, !.error = TRUE]
              /\ ret' = ret
         ELSE /\ last' = [Arrival("/api/watchlist") EXCEPT !.status = 200]
              /\ ret' = [ret EXCEPT !.watchlists =
                           InsertOrReplace(@, [user_id |-> user_id,
                                               symbol  |-> symbol,
                                               notes   |-> body.notes])]
  /\ UNCHANGED <<env, now, aggregator, sully, current_data, last_update,
                 conversations, requests, ticks>>

\* DELETE /api/watchlist/<symbol>
RemoveFromWatchlist(user_id, symbol) ==
  /\ symbol # <<>>
  /\ args' = [called |-> TRUE, method |-> "DELETE", route |-> "/api/watchlist",
              user_id |-> user_id, body |-> [symbol |-> symbol],
              before |-> ret]
  /\ last' = [Arrival("/api/watchlist") EXCEPT !.status = 200]
  /\ ret' = [ret EXCEPT !.watchlists = DeleteWhere(@, user_id, Upper(symbol))]
  /\ UNCHANGED <<env, now, aggregator, sully, current_data, last_update,
                 conversations, requests, ticks>>

\* POST /api/portfolio: float(shares) is evaluated before the symbol test
UpdatePortfolio(body) ==
  /\ args' = [called |-> TRUE, method |-> "POST", route |-> "/api/portfolio",
              user_id |-> BossId, body |-> body, before |-> ret]
  /\ \E symbol \in {Upper(body.symbol)} :
       IF ~body.shares.numeric
         THEN /\ last' = [Arrival("/api/portfolio") EXCEPT
                            !.status = 500, !.error = TRUE]
              /\ ret' = ret
       ELSE IF symbol = <<>>
         THEN /\ last' = [Arrival("/api/portfolio") EXCEPT
                            !.status = 400, !.error = TRUE]
              /\ ret' = ret
         ELSE /\ last' = [Arrival("/api/portfolio") EXCEPT !.status = 200]
              /\ ret' = [ret EXCEPT !.portfolio =
                           InsertOrUpdate(@, [user_id |-> BossId,
                                              symbol  |-> symbol,
                                              shares  |-> body.shares.value])]
  /\ UNCHANGED <<env, now, aggregator, sully, current_data, last_update,
                 conversations, requests, ticks>>

TablesNext ==
  \/ \E user_id \in SessionUsers, symbol \in PostedSymbols, notes \in PostedNotes :
        AddToWatchlist(user_id, [symbol |-> symbol, notes |-> notes])
  \/ \E user_id \in SessionUsers, symbol \in PostedSymbols :
        RemoveFromWatchlist(user_id, symbol)
  \/ \E symbol \in PostedSymbols, shares \in PostedShares :
        UpdatePortfolio([symbol |-> symbol, shares |-> shares])

SpecTables == TablesInit /\ [][TablesNext]_vars

-----------------------------------------------------------------------------
(* Claims *)

IsQuoteEntry(e) == "price" \in DOMAIN e /\ "error" \notin DOMAIN e

IsErrorEntry(e) == "error" \in DOMAIN e

ArgSymbols == {args.symbols[i] : i \in 1..Len(args.symbols)}

\* C1: for every symbol list and every per-symbol upstream outcome, the mapping
\* returned by get_stock_data and by fetch_stock_data_from_yahoo has exactly
\* one entry for each symbol of the list, a quote or an error-tagged entry.
C1_OneEntryPerSymbol ==
  ret.called =>
    /\ KeySet(ret.value) = ArgSymbols
    /\ DOMAIN ret.value.map = ArgSymbols
    /\ Len(ret.value.keys) = Cardinality(ArgSymbols)
    /\ \A s \in DOMAIN ret.value.map :
         IsQuoteEntry(ret.value.map[s]) \/ IsErrorEntry(ret.value.map[s])

\* C2: a /chat request that arrives when a snapshot exists and now minus
\* last_update is more than 1800 seconds performs exactly one quote refresh,
\* and last_update after it is strictly newer than before it.
C2_StaleChatRefreshesOnce ==
  (/\ last.route = "/chat"
   /\ last.routed
   /\ last.had_snapshot
   /\ last.age > 1800)
  => /\ last.refreshes = 1
     /\ last_update > last.at - last.age

\* C3: after any sequence of /chat, /api/briefing and /api/insights requests,
\* a request to one of them that arrives less than 1800 seconds after the
\* current snapshot was fetched performs no quote refresh and leaves the
\* stored snapshot as it was.
C3_FreshSnapshotNoRefresh ==
  [][(/\ requests' = requests + 1
      /\ last'.route \in CacheRoutes
      /\ last'.routed
      /\ last'.had_data
      /\ last'.snapshot_age < 1800)
     => /\ last'.refreshes = 0
        /\ current_data' = current_data]_vars

AllRaised(resps) == \A i \in 1..Len(resps) : resps[i].raised

\* C4: when a refresh is attempted and every quote lookup raises a
\* network-level exception, current_data and last_update keep their previous
\* values and the previous snapshot is the one served; when there was no
\* previous snapshot, the request answers with an explicit error.
C4_FailedRefreshKeepsCache ==
  [][(/\ requests' = requests + 1
      /\ last'.route \in CacheRoutes
      /\ last'.refreshes >= 1
      /\ AllRaised(last'.refresh_resps))
     => /\ current_data' = current_data
        /\ last_update' = last_update
        /\ last'.context = current_data
        /\ (~Truthy(current_data) => last'.error)]_vars

VipWords == {"brady", "tb12", "elon", "musk", "tesla", "trump", "djt"}

NewsWords == {"patriots", "pats", "celtics", "news", "latest"}

Mentions(words, m) == \E kw \in words : InLower(kw, m)

SegmentKinds(text) == {text[i].kind : i \in 1..Len(text)}

RoutedChat == last.route = "/chat" /\ last.routed

\* C5: a routed /chat message takes exactly one branch, by the precedence
\* stock, then VIP, then news, then plain; it makes no entity or topic lookup
\* that belongs to a later branch, and the engine is called exactly once.
C5_RouterPrecedence ==
  RoutedChat =>
    /\ last.branch = IF InLower("stock", last.message) THEN "stock"
                     ELSE IF Mentions(VipWords, last.message) THEN "vip"
                     ELSE IF Mentions(NewsWords, last.message) THEN "news"
                     ELSE "plain"
    /\ last.branch = "stock" =>
         /\ last.calls = <<>> /\ last.vip_key = "" /\ last.search_query = ""
         /\ SegmentKinds(last.prompt) = {"literal", "portfolio_update"}
    /\ last.branch = "vip" =>
         /\ last.vip_key # "" /\ last.search_query = ""
         /\ \A i \in 1..Len(last.calls) : last.calls[i] # "espn"
         /\ SegmentKinds(last.prompt) \subseteq
              {"user_message", "vip_news", "vip_stocks", "vip_businesses",
               "vip_pointer"}
    /\ last.branch = "news" =>
         /\ last.vip_key = ""
         /\ \A i \in 1..Len(last.calls) : last.calls[i] # "yahoo"
         /\ SegmentKinds(last.prompt) \subseteq
              {"user_message", "latest_news", "team_record", "pointer"}
    /\ last.branch = "plain" =>
         /\ last.calls = <<>> /\ last.vip_key = "" /\ last.search_query = ""
         /\ SegmentKinds(last.prompt) = {"user_message"}
    /\ last.engine_calls = 1

\* a message with stock, VIP and news keywords went down the stock branch only
C5_Witness ==
  /\ RoutedChat
  /\ last.message = "Tesla stock news"
  /\ last.branch = "stock"
  /\ last.calls = <<>>
  /\ last.engine_calls = 1

\* C6: in each of the four branches the current snapshot is what the engine
\* gets as market context and the outbound request carries it as its second
\* system block; an unmatched message is answered and forwarded unchanged.
C6_SnapshotAlwaysAttached ==
  RoutedChat =>
    /\ last.branch \in {"stock", "vip", "news", "plain"}
    /\ last.context = current_data
    /\ Truthy(last.context)
    /\ Len(last.outbound) >= 3
    /\ last.outbound[1] = [role |-> "system",
                           content |-> <<[kind |-> "system_prompt"]>>]
    /\ last.outbound[2] = [role |-> "system",
                           content |-> <<[kind |-> "current_data",
                                          stocks |-> current_data.stocks]>>]
    /\ last.outbound[Len(last.outbound)] =
         [role |-> "user", content |-> last.prompt]
    /\ last.status = 200
    /\ last.branch = "plain" => last.prompt = UserText(last.message)

\* the fallback branch forwarded the raw text with the snapshot attached
C6_Witness ==
  /\ RoutedChat
  /\ last.branch = "plain"
  /\ last.message = "Good morning"
  /\ ~last.error
  /\ last.outbound[2].content[1].kind = "current_data"
  /\ last.outbound[Len(last.outbound)].content = UserText("Good morning")

\* the query a topic block was searched with
BlockQuery(seg) ==
  IF seg.kind = "team_record"
    THEN IF seg.team = "NEW ENGLAND PATRIOTS" THEN "New England Patriots"
         ELSE "Boston Celtics"
    ELSE seg.query

\* C7: a news-branch message is searched with 'New England Patriots' if it
\* mentions patriots or pats, else with 'Boston Celtics' if it mentions
\* celtics, else with the raw text.
C7_NewsQuery ==
  (RoutedChat /\ last.branch = "news") =>
    /\ last.search_query =
         IF InLower("patriots", last.message) \/ InLower("pats", last.message)
           THEN "New England Patriots"
         ELSE IF InLower("celtics", last.message) THEN "Boston Celtics"
         ELSE last.message
    /\ Len(last.prompt) = 2
    /\ BlockQuery(last.prompt[2]) = last.search_query
    /\ last.message = "Any Patriots news?" =>
         last.search_query = "New England Patriots"

C7_Witness ==
  /\ RoutedChat
  /\ last.branch = "news"
  /\ last.message = "Any Patriots news?"
  /\ last.search_query = "New England Patriots"
  /\ last.prompt[2].kind = "latest_news"
  /\ last.prompt[2].query = "New England Patriots"

\* the entity block holds a quote line for the ticker
HasTickerLine(text, symbol) ==
  \E i \in 1..Len(text) :
     /\ text[i].kind = "vip_stocks"
     /\ \E j \in 1..Len(text[i].lines) : text[i].lines[j].symbol = symbol

HasBusinesses(text, vip) ==
  \E i \in 1..Len(text) :
     text[i].kind = "vip_businesses" /\ text[i].businesses = vip.businesses

\* C8: a VIP message resolves to one entity in the order Brady, Elon/Tesla,
\* Trump, and the block forwarded to the engine holds the entity's ticker
\* quote (when the provider answers the quote lookup) and its businesses,
\* whether or not the news provider is configured or returns articles.
C8_EntityBlockHasTicker ==
  (RoutedChat /\ last.branch = "vip") =>
    /\ last.vip_key =
         IF Mentions({"brady", "tb12"}, last.message) THEN "tom_brady"
         ELSE IF Mentions({"elon", "musk", "tesla"}, last.message) THEN "elon_musk"
         ELSE "trump"
    /\ HasBusinesses(last.prompt, VIP_TRACKING[last.vip_key])
    /\ ("stocks" \in DOMAIN VIP_TRACKING[last.vip_key]
          /\ last.vip_resps[1].status_code = 200 /\ last.vip_resps[1].valid)
       => HasTickerLine(last.prompt, VIP_TRACKING[last.vip_key].stocks[1])

\* the line of the portfolio block that an entry of the snapshot gives
LineOf(symbol, entry) ==
  [symbol     |-> symbol,
   price      |-> entry.price,
   arrow      |-> IF entry.change > 0 THEN "up_arrow"
                  ELSE IF entry.change < 0 THEN "down_arrow" ELSE "right_arrow",
   abs_change |-> Abs(entry.change),
   change_pct |-> entry.change_percent,
   trend      |-> IF entry.change > 0 THEN "UP"
                  ELSE IF entry.change < 0 THEN "DOWN" ELSE "FLAT"]

Tracked == {STOCK_SYMBOLS[i] : i \in 1..Len(STOCK_SYMBOLS)}

PromptLines == last.prompt[2].lines

\* C9 as stated: the stock prompt holds a line for every tracked symbol.
C9_EveryTrackedSymbol ==
  (RoutedChat /\ last.branch = "stock") =>
    \A s \in Tracked :
       \E j \in 1..Len(PromptLines) : PromptLines[j].symbol = s

\* C9, amended: the stock prompt holds, for every tracked symbol whose entry
\* in the snapshot is a quote, exactly one line with its price, change,
\* percent and the trend label UP / DOWN / FLAT by the sign of the change, and
\* no line for any other symbol.
C9_EveryQuotedSymbol ==
  (RoutedChat /\ last.branch = "stock") =>
    LET stocks == current_data.stocks
        quoted == {s \in Tracked : s \in DOMAIN stocks.map
                                   /\ IsQuoteEntry(stocks.map[s])}
    IN  /\ \A s \in quoted :
             \E j \in 1..Len(PromptLines) :
                /\ PromptLines[j] = LineOf(s, stocks.map[s])
                /\ \A k \in 1..Len(PromptLines) :
                      PromptLines[k].symbol = s => k = j
        /\ \A j \in 1..Len(PromptLines) : PromptLines[j].symbol \in quoted

\* a stock prompt with one symbol up, one down and one flat
C9_Witness ==
  /\ RoutedChat
  /\ last.branch = "stock"
  /\ Len(PromptLines) = 3
  /\ PromptLines[1].trend = "UP"
  /\ PromptLines[2].trend = "DOWN"
  /\ PromptLines[3].trend = "FLAT"

\* C10: for a history of n turns the outbound request holds exactly min(n, 6)
\* prior turns, the most recent ones in their order, after the system
\* block(s) and before the new user turn.
C10_WindowOfSix ==
  args.called =>
    LET h    == args.history
        n    == Len(h)
        k    == IF n < 6 THEN n ELSE 6
        sys  == IF args.data = NoData THEN 1 ELSE 2
        msgs == ret.messages
    IN  /\ Len(msgs) = sys + k + 1
        /\ \A i \in 1..sys : msgs[i].role = "system"
        /\ \A i \in 1..k : msgs[sys + i] = h[n - k + i]
        /\ msgs[sys + k + 1] = [role |-> "user", content |-> args.user_message]

\* after 4 exchanges the next request holds turns 3..8 and not turns 1, 2
C10_Witness ==
  /\ args.called
  /\ Len(args.history) = 8
  /\ args.data = NoData
  /\ Len(ret.messages) = 8
  /\ ret.messages[2] = args.history[3]
  /\ ret.messages[7] = args.history[8]

\* C11: when the completion provider fails inside SullyAI.chat, the error
\* reaches the caller, the provider was called exactly once (no retry), and
\* conversation_history is what it was before the call.
C11_FailureLeavesHistory ==
  (args.called /\ args.completion.raised) =>
    /\ ret.raised
    /\ ret.reply = <<>>
    /\ ret.provider_calls = 1
    /\ sully.conversation_history = args.history

C11_Witness ==
  /\ args.called
  /\ args.completion.raised
  /\ ret.raised
  /\ Len(args.history) >= 2
  /\ sully.conversation_history = args.history

\* the News API yields articles for the call in args
NewsYields ==
  /\ env.NEWS_API_KEY
  /\ ~args.newsResp.raised
  /\ args.newsResp.status_code = 200
  /\ args.newsResp.valid
  /\ args.newsResp.articles # <<>>

TeamQuery ==
  Mentions({"patriots", "pats", "celtics"}, args.query)

\* ESPN yields a team record for the call in args
SportsYields ==
  /\ TeamQuery
  /\ ~args.sportsResp.raised
  /\ args.sportsResp.status_code = 200
  /\ args.sportsResp.valid

\* C12: for every query and every outcome of the providers search_live_news
\* returns a non-empty text and does not raise; the news provider is tried
\* first (when configured), the sports provider only after it yielded nothing
\* and only for patriots / pats / celtics queries, and the pointer message is
\* the result when neither yields.  search_vip_news returns a non-empty text
\* and does not raise for every tracked entity key.
C12_NewsNeverBlocks ==
  ret.called =>
    /\ ~ret.value.raised
    /\ ret.value.text # <<>>
    /\ ret.fn = "search_live_news" =>
         /\ ret.value.calls \in
              {<<>>, <<"newsapi">>, <<"espn">>, <<"newsapi", "espn">>}
         /\ (\E i \in 1..Len(ret.value.calls) : ret.value.calls[i] = "newsapi")
              <=> env.NEWS_API_KEY
         /\ (\E i \in 1..Len(ret.value.calls) : ret.value.calls[i] = "espn")
              <=> (TeamQuery /\ ~NewsYields)
         /\ NewsYields => SegmentKinds(ret.value.text) = {"latest_news"}
         /\ (~NewsYields /\ SportsYields) =>
              SegmentKinds(ret.value.text) = {"team_record"}
         /\ (~NewsYields /\ ~SportsYields) =>
              ret.value.text = <<[kind |-> "pointer", query |-> args.query]>>

C12_Witness ==
  /\ ret.called
  /\ ret.fn = "search_live_news"
  /\ env.NEWS_API_KEY
  /\ args.newsResp.raised
  /\ args.sportsResp.status_code = 503
  /\ args.query = "Go Pats"
  /\ ret.value.calls = <<"newsapi", "espn">>
  /\ ret.value.text = <<[kind |-> "pointer", query |-> "Go Pats"]>>

\* the symbols of the snapshot in args, and those with a quote entry
SnapshotSymbols == DOMAIN args.stocks.map

Errored(s) == "error" \in DOMAIN args.stocks.map[s]

Pct(s) == args.stocks.map[s].change_percent

\* the positions of the entries about symbol s in a list of insights or alerts
EntriesOf(list, s) == {i \in 1..Len(list) : list[i].symbol = s}

\* C13: detect_alerts emits at most one alert for each non-errored symbol:
\* severity urgent exactly when |change_percent| > 10, severity warning exactly
\* when 5 < |change_percent| <= 10, none otherwise, and none for an errored
\* symbol; a snapshot whose one symbol has change_percent = 12 yields exactly
\* one alert, for that symbol, with severity urgent.
C13_AlertThresholds ==
  ret.called =>
    /\ \A i \in 1..Len(ret.alerts) : ret.alerts[i].symbol \in SnapshotSymbols
    /\ \A s \in SnapshotSymbols :
         LET mine == EntriesOf(ret.alerts, s)
         IN  IF Errored(s) THEN mine = {}
             ELSE /\ Cardinality(mine) <= 1
                  /\ (\E i \in mine : ret.alerts[i].severity = "urgent")
                       <=> Abs(Pct(s)) > 1000
                  /\ (\E i \in mine : ret.alerts[i].severity = "warning")
                       <=> (500 < Abs(Pct(s)) /\ Abs(Pct(s)) <= 1000)
                  /\ Abs(Pct(s)) <= 500 => mine = {}
    /\ (args.stocks.keys = <<"TSLA">> /\ ~Errored("TSLA") /\ Pct("TSLA") = 1200)
         => /\ Len(ret.alerts) = 1
            /\ ret.alerts[1].symbol = "TSLA"
            /\ ret.alerts[1].severity = "urgent"

C13_Witness ==
  /\ ret.called
  /\ args.stocks.keys = <<"TSLA">>
  /\ ~Errored("TSLA")
  /\ Pct("TSLA") = 1200
  /\ Len(ret.alerts) = 1
  /\ ret.alerts[1].severity = "urgent"

IsPerSymbol(insight) == insight.symbol # "PORTFOLIO"

Quoted == {s \in SnapshotSymbols : ~Errored(s)}

Gainers == {s \in Quoted : Pct(s) > 0}

\* more than 75% of the non-errored symbols have change_percent > 0
MostlyUp == 4 * Cardinality(Gainers) > 3 * Cardinality(Quoted)

HasRally ==
  \E i \in 1..Len(ret.insights) :
     ret.insights[i].type = "broad_rally" /\ ret.insights[i].symbol = "PORTFOLIO"

\* C15 as stated: the list returned by extract_insights contains a broad_rally
\* insight with symbol PORTFOLIO exactly when more than 75% of the non-errored
\* symbols have change_percent > 0.
C15_RallyWheneverMostlyUp ==
  ret.called => (HasRally <=> MostlyUp)

\* C15: the list returned by extract_insights contains a broad_rally insight
\* with symbol PORTFOLIO exactly when more than 75% of the non-errored symbols
\* have change_percent > 0 and fewer than five per-symbol insights precede it
\* (the list is cut to its first five entries); it contains none when 75% or
\* fewer are positive or no symbol is non-errored.
C15_RallyWithinFirstFive ==
  ret.called =>
    /\ HasRally <=> (MostlyUp /\ Len(ret.per_symbol) < 5)
    /\ Len(ret.insights) <= 5
    /\ (~MostlyUp \/ Quoted = {}) => ~HasRally

C15_Witness ==
  /\ ret.called
  /\ Cardinality(Quoted) = 4
  /\ Cardinality(Gainers) = 4
  /\ Len(ret.per_symbol) = 4
  /\ Len(ret.insights) = 5
  /\ ret.insights[5].type = "broad_rally"

\* alerts without their timestamp field
Unstamped(alerts) ==
  [i \in 1..Len(alerts) |->
     [type |-> alerts[i].type, symbol |-> alerts[i].symbol,
      change_pct |-> alerts[i].change_pct, severity |-> alerts[i].severity]]

Writes(s) ==
  {i \in 1..Len(args.symbols) :
     /\ args.symbols[i] = s
     /\ (args.responses[i].raised \/ args.responses[i].status_code = 200)}

\* the last lookup that wrote the entry of s
LastWrite(s) == CHOOSE i \in Writes(s) : \A j \in Writes(s) : j <= i

\* the symbols whose entry comes from a successful lookup
Successful ==
  {s \in ArgSymbols :
     /\ Writes(s) # {}
     /\ ~args.responses[LastWrite(s)].raised
     /\ args.responses[LastWrite(s)].valid}

\* the upstream price and previous close of that lookup, in mills
RawPrice(s) == Get(args.responses[LastWrite(s)].meta, "regularMarketPrice", 0)

RawPrev(s) == Get(args.responses[LastWrite(s)].meta, "previousClose", 0)

\* C17 as stated, on the fields of the returned entry: change is price minus
\* previous_close, change_percent is change / previous_close * 100 (to two
\* decimals) when previous_close is not 0 and 0, in a quote entry, otherwise.
C17_ChangeIsDifferenceOfFields ==
  ret.called =>
    \A s \in Successful :
      LET e == ret.value.map[s]
      IN  /\ IsQuoteEntry(e)
          /\ e.change = e.price - e.previous_close
          /\ e.change_percent =
               IF RawPrev(s) # 0
                 THEN RoundHalfEven((RawPrice(s) - RawPrev(s)) * 10000, RawPrev(s))
                 ELSE 0

\* C17: for every successful quote lookup the entry is a quote entry whose
\* change is the upstream price minus the upstream previous close, rounded to
\* two decimals (price and previous_close are rounded separately), and whose
\* change_percent is that difference / previous close * 100, rounded to two
\* decimals, when the previous close is not 0, and 0 when it is 0 or absent.
C17_ChangeOfUpstreamValues ==
  ret.called =>
    \A s \in Successful :
      LET e == ret.value.map[s]
      IN  /\ IsQuoteEntry(e)
          /\ ~IsErrorEntry(e)
          /\ e.price = Round2(RawPrice(s))
          /\ e.previous_close = Round2(RawPrev(s))
          /\ e.change = Round2(RawPrice(s) - RawPrev(s))
          /\ e.change_percent =
               IF RawPrev(s) # 0
                 THEN RoundHalfEven((RawPrice(s) - RawPrev(s)) * 10000, RawPrev(s))
                 ELSE 0

C17_Witness ==
  /\ ret.called
  /\ Len(args.symbols) = 2
  /\ args.responses = <<QuoteZeroPrev, QuoteDown>>
  /\ args.symbols = <<"TSLA", "DJT">>
  /\ ret.value.map["TSLA"].change_percent = 0
  /\ ret.value.map["TSLA"].change = 2000
  /\ ret.value.map["DJT"].change = -600
  /\ ret.value.map["DJT"].change_percent = -600

\* C18: GET /api/stocks looks every requested symbol up again on every call,
\* whatever the age of the cache, and leaves current_data and last_update as
\* they were, so the staleness test of a later /chat, /api/briefing or
\* /api/insights request gives what it would have given without the call.
C18_StocksBypassesCache ==
  [][(requests' = requests + 1 /\ last'.route = "/api/stocks")
     => /\ current_data' = current_data
        /\ last_update' = last_update
        /\ NeedsRefresh(current_data', last_update', now')
             = NeedsRefresh(current_data, last_update, now)
        /\ Len(last'.calls) >= 1
        /\ Len(last'.calls) = Len(last'.refresh_resps)
        /\ \A i \in 1..Len(last'.calls) : last'.calls[i] = "yahoo"
        /\ last'.status = 200]_vars

C18_Witness ==
  /\ last.route = "/api/stocks"
  /\ last.had_snapshot
  /\ last.age = 0
  /\ last.calls = <<"yahoo", "yahoo", "yahoo">>
  /\ last.context.count = 3
  /\ current_data.stocks # last.context.stocks

\* C19: without the completion-provider credential every /chat request
\* answers the fixed message with error true (HTTP 200, nothing raised),
\* calls neither the quote, the news nor the completion provider, and leaves
\* current_data, last_update and the engine (not created) as they were.
C19_NoCredentialFixedMessage ==
  (~env.GROQ_API_KEY /\ last.route = "/chat") =>
    /\ last.status = 200
    /\ last.response = "API key not configured yet. Please contact support."
    /\ last.error
    /\ last.refreshes = 0
    /\ last.calls = <<>>
    /\ last.engine_calls = 0
    /\ current_data = NoData
    /\ last_update = NoTime
    /\ sully = NoEngine
    /\ conversations = <<>>

C19_Witness ==
  /\ ~env.GROQ_API_KEY
  /\ env.NEWS_API_KEY
  /\ requests = 1
  /\ last.route = "/chat"
  /\ last.error
  /\ sully = NoEngine

\* C20: when the conversations insert fails after a successful completion
\* call, /chat still answers {response: <assistant reply>} without the error
\* flag, and the two turns of the exchange stay in the engine's history.
C20_LogFailureSwallowed ==
  (RoutedChat /\ last.insert = "failed") =>
    /\ ~last.completion.raised
    /\ last.status = 200
    /\ ~last.error
    /\ last.response = last.completion.content
    /\ ~last.logged
    /\ Len(sully.conversation_history) = last.history_len + 2
    /\ sully.conversation_history[last.history_len + 1] =
         [role |-> "user", content |-> last.prompt]
    /\ sully.conversation_history[last.history_len + 2] =
         [role |-> "assistant", content |-> last.completion.content]

C20_Witness ==
  /\ RoutedChat
  /\ last.insert = "failed"
  /\ last.response = "Looking solid, boss."
  /\ ~last.error
  /\ conversations = <<>>
  /\ Len(sully.conversation_history) = 2

\* the workers whose staleness test came out stale
SawStale == {w \in Workers : args[w].pc # "idle" /\ args[w].stale}

Fetching == {w \in Workers : args[w].pc = "fetch"}

\* C21: nothing deduplicates refreshes: every request whose staleness test
\* came out stale makes its own full quote refresh (one lookup per symbol),
\* also when another request is refreshing at the same moment, so the
\* refreshes of one stale period can be as many as the overlapping requests.
C21_NoRefreshDedup ==
  /\ \A w \in SawStale :
       \/ args[w].pc = "fetch"
       \/ args[w].pc = "answered"
       \/ /\ args[w].pc \in {"store", "stamp", "use"}
          /\ args[w].done = Len(STOCK_SYMBOLS)
          /\ args[w].snapshot \in ret.finished
  /\ ret.stale_tests = ret.refreshes + Cardinality(Fetching)
  /\ Fetching = {} => ret.lookups = Len(STOCK_SYMBOLS) * ret.refreshes

\* two /chat requests that both refreshed: the second tested before the
\* first had stored its snapshot and its time
C21_Witness ==
  /\ \A w \in {1, 2} :
       /\ args[w].pc = "answered"
       /\ args[w].route = "/chat"
       /\ args[w].stale
  /\ ret.refreshes = 2
  /\ ret.lookups = 2 * Len(STOCK_SYMBOLS)

\* C22: in every state where a snapshot is stored, its refresh time is
\* stored too and is the time that snapshot was fetched.
C22_SnapshotStoredWithItsTime ==
  Truthy(current_data) =>
     /\ last_update # NoTime
     /\ last_update = current_data.timestamp

\* a snapshot built by a whole pass over the configured symbols
WholeSnapshot(data) ==
  /\ data \in ret.finished
  /\ KeySet(data.stocks) = {STOCK_SYMBOLS[i] : i \in 1..Len(STOCK_SYMBOLS)}

\* C27: the shared snapshot is only ever replaced as a whole: what is stored,
\* and what a request reads, is the complete result of one refresh, never a
\* dict that a refresh in progress is still filling.
C27_SnapshotReplacedWhole ==
  /\ Truthy(current_data) => WholeSnapshot(current_data)
  /\ (last.routed /\ Truthy(last.context)) => WholeSnapshot(last.context)
  /\ \A w \in Fetching :
       args[w].done < Len(STOCK_SYMBOLS) =>
          (Truthy(current_data) => current_data.stocks # args[w].stocks)

\* a request read the stored snapshot while another request was part-way
\* through its own refresh
C27_Witness ==
  /\ \E w \in Fetching : args[w].done \in 1..(Len(STOCK_SYMBOLS) - 1)
  /\ last.routed
  /\ Truthy(last.context)
  /\ last.context = current_data

\* a lookup that did not yield a quote: exception, non-200 or malformed body
Failed(resp) == resp.raised \/ resp.status_code # 200 \/ ~resp.valid

\* the entry of symbol s in dict d, <<>> when d has none
EntryOf(d, s) == IF s \in DOMAIN d.map THEN <<d.map[s]>> ELSE <<>>

\* the lookups whose symbol is not looked up again later in the list
LastLookups ==
  {j \in 1..Len(args.symbols) :
     \A k \in (j + 1)..Len(args.symbols) : args.symbols[k] # args.symbols[j]}

\* C23: a failed lookup of one symbol is isolated: get_stock_data returns a
\* dict all the same, the entries of the other symbols are what they would
\* be had the failing lookup succeeded, and the symbols after the failing
\* one are still looked up and get their entries.
C23_FailureIsIsolated ==
  (ret.called /\ ret.fn = "get_stock_data") =>
    /\ KeySet(ret.value) \subseteq ArgSymbols
    /\ KeySet(ret.value) = DOMAIN ret.value.map
    /\ \A i \in 1..Len(args.symbols) :
         Failed(args.responses[i]) =>
           /\ \A s \in ArgSymbols \ {args.symbols[i]} :
                EntryOf(ret.value, s) =
                  EntryOf(get_stock_data(args.symbols,
                            [args.responses EXCEPT ![i] = QuoteUp]), s)
           /\ \A j \in LastLookups :
                (j > i /\ (args.responses[j].raised
                            \/ args.responses[j].status_code = 200)) =>
                  EntryOf(ret.value, args.symbols[j]) =
                    EntryOf(Lookup(EmptyDict, args.symbols[j],
                                   args.responses[j]), args.symbols[j])

\* the first lookup raised and the second symbol still has its quote
C23_Witness ==
  /\ ret.called
  /\ ret.fn = "get_stock_data"
  /\ args.symbols = <<"TSLA", "DJT">>
  /\ args.responses = <<RespException, QuoteDown>>
  /\ IsErrorEntry(ret.value.map["TSLA"])
  /\ ret.value.map["DJT"] = QuoteEntry("DJT", QuoteDown)

\* the symbols the loop has an insight for, in the iteration order of the dict
Noteworthy ==
  LET F[i \in 0..Len(args.stocks.keys)] ==
        IF i = 0 THEN <<>>
        ELSE IF ~Errored(args.stocks.keys[i]) /\ Abs(Pct(args.stocks.keys[i])) > 300
               THEN Append(F[i - 1], args.stocks.keys[i])
               ELSE F[i - 1]
  IN  F[Len(args.stocks.keys)]

\* C24: extract_insights returns at most 5 insights: the first 5 of the list
\* that holds the per-symbol insights in the iteration order of the symbols
\* (never ordered by the size of the move) followed by the portfolio-wide
\* insight, which comes last before the cut.
C24_FirstFiveInIterationOrder ==
  ret.called =>
    /\ Len(ret.insights) <= 5
    /\ Len(ret.insights) =
         Min(5, Len(Noteworthy) + (IF MostlyUp THEN 1 ELSE 0))
    /\ \A i \in 1..Len(ret.insights) :
         IF i <= Len(Noteworthy)
           THEN ret.insights[i].symbol = Noteworthy[i]
           ELSE /\ i = Len(Noteworthy) + 1
                /\ ret.insights[i].symbol = "PORTFOLIO"
                /\ ret.insights[i].type = "broad_rally"

\* the smaller move comes first because its symbol does, and the
\* portfolio-wide insight follows both
C24_Witness ==
  /\ ret.called
  /\ args.stocks.keys = <<"TSLA", "AAPL">>
  /\ ~Errored("TSLA") /\ Pct("TSLA") = 501
  /\ ~Errored("AAPL") /\ Pct("AAPL") = 1200
  /\ Len(ret.insights) = 3
  /\ ret.insights[1].symbol = "TSLA"
  /\ ret.insights[2].symbol = "AAPL"
  /\ ret.insights[3].symbol = "PORTFOLIO"

\* the shares recorded for symbol s, 0 when there is no row
SharesHeld(s) ==
  IF s \in DOMAIN args.portfolio_holdings THEN args.portfolio_holdings[s] ELSE 0

\* the symbols that count: quoted, with shares held
HeldSymbols == {s \in SnapshotSymbols : ~Errored(s) /\ SharesHeld(s) # 0}

\* amount(s) added up over the held symbols
HeldTotal(field) ==
  SumOver([i \in 1..Len(args.stocks.keys) |->
             IF args.stocks.keys[i] \in HeldSymbols
               THEN args.stocks.map[args.stocks.keys[i]][field]
                      * SharesHeld(args.stocks.keys[i])
               ELSE 0])

\* list holds the three (or all) symbols of `pool` with the largest
\* sign * change_pct, largest first
TopThree(list, pool, sign) ==
  /\ Len(list) = Min(3, Cardinality(pool))
  /\ \A i \in 1..Len(list) :
       /\ list[i].symbol \in pool
       /\ list[i].change_pct = Pct(list[i].symbol)
       /\ list[i].shares = SharesHeld(list[i].symbol)
       /\ list[i].name = STOCK_NAMES[list[i].symbol]
  /\ \A i, j \in 1..Len(list) :
       i < j => /\ list[i].symbol # list[j].symbol
                /\ sign * list[j].change_pct <= sign * list[i].change_pct
  /\ \A s \in pool :
       (\A i \in 1..Len(list) : list[i].symbol # s) =>
          \A i \in 1..Len(list) : sign * Pct(s) <= sign * list[i].change_pct

\* C25: analyze_portfolio_performance counts only the quoted symbols of which
\* shares are held: a symbol with zero or no recorded shares, or with an
\* errored quote, adds nothing to total value, total change, gainers or
\* losers; the gainers are listed by percent change descending, the losers
\* ascending, three of each at most; a total value of 0 gives the fixed
\* 'No portfolio holdings entered yet' message.
C25_OnlyHeldPositionsCount ==
  ret.called =>
    /\ Len(ret.value) = 1
    /\ IF HeldTotal("price") = 0
         THEN ret.value[1].kind = "no_holdings"
         ELSE /\ ret.value[1].kind = "portfolio_summary"
              /\ ret.value[1].total_value = HeldTotal("price")
              /\ ret.value[1].total_change = HeldTotal("change")
              /\ TopThree(ret.value[1].gainers,
                          {s \in HeldSymbols : args.stocks.map[s].change > 0},
                          1)
              /\ TopThree(ret.value[1].losers,
                          {s \in HeldSymbols : args.stocks.map[s].change < 0},
                          -1)

\* two held gainers are listed; a +6% symbol with no row and a +12% symbol
\* with 0 shares are left out
C25_Witness ==
  /\ ret.called
  /\ args.stocks.keys = <<"TSLA", "AAPL", "NVDA", "MSFT">>
  /\ ~Errored("TSLA") /\ Pct("TSLA") = 600
  /\ ~Errored("AAPL") /\ Pct("AAPL") = 1200
  /\ ~Errored("NVDA") /\ Pct("NVDA") = 1200
  /\ ~Errored("MSFT") /\ Pct("MSFT") = 1200
  /\ DOMAIN args.portfolio_holdings = {"AAPL", "NVDA", "MSFT"}
  /\ args.portfolio_holdings["AAPL"] = 3
  /\ args.portfolio_holdings["NVDA"] = 0
  /\ args.portfolio_holdings["MSFT"] = 3
  /\ ret.value[1].kind = "portfolio_summary"
  /\ ret.value[1].total_value = 3 * 11200 + 3 * 11200
  /\ Len(ret.value[1].gainers) = 2
  /\ ret.value[1].gainers[1].symbol = "AAPL"
  /\ ret.value[1].gainers[2].symbol = "MSFT"
  /\ ret.value[1].losers = <<>>

\* C26: a request on a credential-dependent route that finds the credential
\* absent is answered with a 4xx status and an error body, before any call
\* to the provider the credential is for.
C26_MissingCredentialIs4xx ==
  (~env.GROQ_API_KEY /\ last.route \in {"/chat", "/api/briefing"}) =>
    /\ last.status >= 400
    /\ last.status < 500
    /\ last.error
    /\ last.engine_calls = 0

\* C28: after any sequence of SullyAI.chat calls made one at a time, some
\* succeeding and some failing, conversation_history holds two turns for
\* each successful call, user and assistant in turn starting with user; a
\* successful call appends the user text it sent and then the provider's
\* reply, and returns that reply.
C28_HistoryIsPairsOfSuccesses ==
  args.called =>
    /\ Len(sully.conversation_history) = 2 * ret.successes
    /\ \A i \in 1..Len(sully.conversation_history) :
         sully.conversation_history[i].role =
           IF i % 2 = 1 THEN "user" ELSE "assistant"
    /\ ~ret.raised =>
         /\ sully.conversation_history =
              args.history \o
                <<[role |-> "user", content |-> args.user_message],
                  [role |-> "assistant", content |-> args.completion.content]>>
         /\ ret.reply = args.completion.content

\* three calls of which one of the first two failed: four turns for two successes
C28_Witness ==
  /\ args.called
  /\ requests = 3
  /\ ret.successes = 2
  /\ ~ret.raised
  /\ Len(args.history) = 2
  /\ Len(sully.conversation_history) = 4
  /\ sully.conversation_history[3].content = args.user_message
  /\ sully.conversation_history[4].content = ret.reply

\* C29: the engine is constructed at most once in the process and every
\* /chat and /api/briefing request uses that one engine, whose history is
\* never reset: every turn a request appended is in the history the next
\* request draws its context window from.
C29_OneEngineKeepsEveryTurn ==
  /\ ret.constructed <= 1
  /\ sully # NoEngine => Len(sully.conversation_history) = ret.appended
  /\ ret.orphaned = 0

\* the rows of a table about the symbol of the request in args
RowsOfRequest(rows) ==
  {r \in rows : r.user_id = args.user_id /\ Upper(r.symbol) = Upper(args.body.symbol)}

\* at most one row per (user, upper-cased symbol)
OneRowPerSymbol(rows) ==
  \A r1, r2 \in rows :
     (r1.user_id = r2.user_id /\ Upper(r1.symbol) = Upper(r2.symbol)) => r1 = r2

\* C30: each table has at most one row per (user, upper-cased symbol): a
\* POST for a symbol in any letter case leaves a single row with the notes
\* or shares just posted, DELETE /api/watchlist/<symbol> leaves no row for
\* the symbol and the other rows as they were, and a POST with an empty
\* symbol answers 400 and changes no row.
C30_OneRowPerUserAndSymbol ==
  /\ OneRowPerSymbol(ret.watchlists)
  /\ OneRowPerSymbol(ret.portfolio)
  /\ args.called =>
       /\ (args.method = "POST" /\ args.body.symbol = <<>>) =>
            /\ last.status = 400
            /\ ret = args.before
       /\ (args.method = "POST" /\ args.body.symbol # <<>>
             /\ args.route = "/api/watchlist") =>
            /\ RowsOfRequest(ret.watchlists) =
                 {[user_id |-> args.user_id, symbol |-> Upper(args.body.symbol),
                   notes |-> args.body.notes]}
            /\ ret.watchlists \ RowsOfRequest(ret.watchlists) =
                 args.before.watchlists \ RowsOfRequest(args.before.watchlists)
       /\ (args.method = "POST" /\ args.body.symbol # <<>>
             /\ args.route = "/api/portfolio" /\ args.body.shares.numeric) =>
            /\ RowsOfRequest(ret.portfolio) =
                 {[user_id |-> args.user_id, symbol |-> Upper(args.body.symbol),
                   shares |-> args.body.shares.value]}
            /\ ret.portfolio \ RowsOfRequest(ret.portfolio) =
                 args.before.portfolio \ RowsOfRequest(args.before.portfolio)
       /\ args.method = "DELETE" =>
            /\ RowsOfRequest(ret.watchlists) = {}
            /\ ret.watchlists =
                 args.before.watchlists \ RowsOfRequest(args.before.watchlists)
            /\ ret.portfolio = args.before.portfolio

=============================================================================
